---- MODULE Spec2Model ----
(***************************************************************************)
(* Model of ESP32_AI_Connect: the streaming session state machine          *)
(* (streamChat / stopStreaming / streamChatReset, several caller threads)  *)
(* and the tool-call round trip (tcChat / tcReply / tcChatReset).          *)
(*                                                                         *)
(* Granularity of the streaming part.  Every access to a shared field that *)
(* the code makes outside the mutex (_getStreamState(), the _lastError     *)
(* writes) is a step of its own; a critical section (_acquireStreamLock .. *)
(* _releaseStreamLock) of streamChat, stopStreaming and streamChatReset is *)
(* one step, because the sections contain no blocking call.  The locked    *)
(* getters and setters take the mutex in one step and give it back in the  *)
(* next; an acquisition fails (its timeout of 10..1000 ms expires) only    *)
(* while another thread holds the mutex between two steps.  Time is        *)
(* abstracted: whether data is available, whether the peer is still        *)
(* connected and whether the chunk timeout has expired are chosen by the   *)
(* environment at each loop turn.                                          *)
(***************************************************************************)
EXTENDS Integers, Sequences, FiniteSets, TLC

\* ---------------------------------------------------------------- bounds
MaxChunks == 2          \* lines read from the transport in one session

\* ------------------------------------------------------ program constants
HTTP_CODE_OK == 200
AI_API_REQ_JSON_DOC_SIZE == 5120

Threads == {"t1", "t2"}
NoThread == "none"

\* StreamState (ESP32_AI_Connect.h)
IDLE == "IDLE"
STARTING == "STARTING"
ACTIVE == "ACTIVE"
STOPPING == "STOPPING"
ERROR == "ERROR"
StreamStates == {IDLE, STARTING, ACTIVE, STOPPING, ERROR}

Platforms == {"none", "openai", "claude", "gemini"}

\* _lastError texts (the variable parts of a message are left out)
NoError == ""
ErrInProgress == "Streaming operation already in progress"
ErrLockTimeout == "Failed to acquire stream lock (timeout)"
ErrNoHandler == "Platform handler not initialized"
ErrNullCallback == "Callback function is null"
ErrBuildStream == "Failed to build streaming request body"
ErrBeginFailed == "HTTP Client failed to begin connection to: "
ErrRequestFailed == "HTTP Request Failed: "
ErrHttp == "HTTP Error: "
ErrStreamTimeout == "Stream timeout: No data received within "
ErrChunkJson == "Failed to parse streaming chunk JSON: "
ErrChunkApi == "API Error in stream: "
ErrChunkStream == "Stream error: "
ErrUnsupported == "Platform is not supported or was disabled"
ErrTcNoHandler == "Platform handler not initialized. Call begin() with a supported platform."
ErrToolsNotSet == "Tool calls not set up. Call setTCTools() first."
ErrNoToolCalls == "No tool calls to reply to. Call tcChat first and ensure it returns tool calls."
ErrResultsTooLarge == "Tool results JSON too large. Maximum size: "
ErrResultsJson == "Invalid JSON in tool results: "
ErrResultsNotArray == "Tool results must be a JSON array."
ErrResultNoId == "Each tool result must have a 'tool_call_id' field."
ErrResultNoFunction == "Each tool result must have a 'function' field."
ErrResultNoName == "Each tool result function must have a 'name' field."
ErrResultNoOutput == "Each tool result function must have an 'output' field."
ErrBuildTc == "Failed to build tool calls request body."
ErrBuildFollowUp == "Failed to build tool calls follow-up request body."
ErrParseTc == "Handler failed to parse tool calls response."
ErrParseFollowUp == "Handler failed to parse tool calls follow-up response."
ErrJson == "JSON Deserialization failed: "
ErrApi == "API Error: "
ErrNoChoice == "Could not find 'choices[0].message.content' or 'choices[0].message.tool_calls' in response."
ErrNoContentArray == "No content array found in response"
ErrNoCandidates == "Invalid Gemini response format: Missing 'candidates' or expected content structure"
ErrNoParts == "Could not find 'parts' array in response 'content'"
ErrNeither == "Response contained neither function calls nor text content"
ErrToolJson == "Invalid JSON in tool"
ErrToolsTooLarge == "Tool calls definition too large. Total size: "
ErrToolNoName == "Missing 'name' field in tool #"
ErrToolNoParameters == "Missing 'parameters' field in tool #"
ErrBuildChat == "Failed to build request body (handler returned empty)."
ErrParseChat == "Handler failed to parse response or returned empty content."
ErrNoContent == "Could not find 'choices[0].message.content' in response."
ErrNoValidContent == "No valid content in response"
ErrGeminiFormat == "Invalid Gemini response format: Missing 'candidates', 'error', or 'promptFeedback'. Payload: "
ErrGeminiStopped == "Gemini response stopped. Reason: "
ErrGeminiNoParts == "Could not find 'parts' array or it was empty in response 'content'."
ErrGeminiNoText == "Could not find 'text' field in response 'parts'."

ErrClaudeApi == "API error: "

\* the message m of the error envelope {"error":{"message":m}} the vendors
\* answer with, and the envelope as the text of a payload
ErrorMessage == "overloaded"
ErrorEnvelope == "{\"error\":{\"message\":\"overloaded\"}}"

\* ApiError that does not read the message of the envelope
ApiError_NoMessage(prefix) == prefix \o "Unknown error"

\* "API Error: " + (doc["error"]["message"] | "Unknown error") for an
\* envelope that has the message
ApiError(prefix) == prefix \o ErrorMessage

\* "HTTP Error: " + String(httpCode) + " - Response: " + responsePayload
HttpError(httpCode, responsePayload) ==
    ErrHttp \o ToString(httpCode) \o " - Response: " \o responsePayload

\* msg contains m
Contains(msg, m) ==
    \E i \in 1..(Len(msg) - Len(m) + 1) : SubSeq(msg, i, i + Len(m) - 1) = m

\* the messages that contain the words "in progress"
ContainsInProgress(msg) == msg \in {ErrInProgress}

VARIABLES
    platformHandler,     \* _platformHandler: "none" is nullptr
    lastError,           \* _lastError
    streamState,         \* _streamState
    streamCallback,      \* _streamCallback: NoThread is nullptr, else the thread whose callback it is
    streamChunkCount,    \* _streamChunkCount
    streamTotalBytes,    \* _streamTotalBytes
    streamResponseCode,  \* _streamResponseCode
    streamMutex,         \* _streamMutex: the thread that holds it, NoThread when it is free
    pc,                  \* per thread: position in the public method it executes
    loc,                 \* per thread: the locals of streamChat / _processStreamResponse / stopStreaming
    hist,                \* per thread: what the current call did, for the properties
    tcToolsArraySize,            \* _tcToolsArraySize (_tcToolsArray is nullptr exactly when it is 0)
    tcToolsArray,                \* _tcToolsArray: the stored tool definitions
    lastUserMessage,             \* _lastUserMessage
    lastAssistantToolCallsJson,  \* _lastAssistantToolCallsJson
    lastMessageWasToolCalls,     \* _lastMessageWasToolCalls
    lastFinishReason,            \* the handler's _lastFinishReason
    lastTotalTokens,             \* the handler's _lastTotalTokens
    chatRawResponse,             \* _chatRawResponse: "" or the kind of payload stored
    chatResponseCode,            \* _chatResponseCode
    tcRawResponse,               \* _tcRawResponse
    tcChatResponseCode,          \* _tcChatResponseCode
    tcReplyResponseCode,         \* _tcReplyResponseCode
    tcLog,                       \* the last tool-call operation: its input, what it returned, what it sent
    pure                         \* a handler function applied to an input: the function, the input, the output

sessionVars == <<streamState, streamCallback, streamChunkCount, streamTotalBytes,
                 streamResponseCode>>
streamVars == <<sessionVars, streamMutex>>
threadVars == <<pc, loc, hist>>
rawVars == <<chatRawResponse, chatResponseCode, tcRawResponse, tcChatResponseCode,
             tcReplyResponseCode>>
toolVars == <<tcToolsArraySize, tcToolsArray>>
tcVars == <<toolVars, pure, lastUserMessage, lastAssistantToolCallsJson, lastMessageWasToolCalls,
            lastFinishReason, lastTotalTokens, rawVars, tcLog>>

vars == <<platformHandler, lastError, streamVars, threadVars, tcVars>>

\* ------------------------------------------------- lines of the byte stream
\* A line read with readStringUntil('\n'), reduced to what the chunk parsers
\* look at: its length, whether it contains "[DONE]", whether it has a
\* "data: " prefix followed by a non-empty payload, whether that payload is
\* valid JSON, whether it has a non-null "error" member, the Claude event
\* "type", the finish reason ("" is null/absent) and the text delta ("" is
\* absent or empty).
Line(len, done, data, jsonOK, apiErr, type, fin, text) ==
    [len |-> len, done |-> done, data |-> data, jsonOK |-> jsonOK,
     apiErr |-> apiErr, type |-> type, fin |-> fin, text |-> text]

Lines ==
    { Line(0,  FALSE, FALSE, FALSE, FALSE, "", "", ""),                       \* empty line
      Line(12, TRUE,  TRUE,  FALSE, FALSE, "", "", ""),                       \* data: [DONE]
      Line(12, FALSE, TRUE,  FALSE, FALSE, "", "", ""),                       \* data: {broken
      Line(24, FALSE, TRUE,  TRUE,  TRUE,  "error", "", ""),                  \* error envelope
      Line(24, FALSE, TRUE,  TRUE,  FALSE, "content_block_delta", "", "hi"),  \* a text delta
      Line(24, FALSE, TRUE,  TRUE,  FALSE, "message_delta", "end_turn", ""),  \* a stop reason
      Line(24, FALSE, TRUE,  TRUE,  FALSE, "message_stop", "STOP", "") }      \* end of message

ChunkResult(content, isComplete, errorMsg) ==
    [content |-> content, isComplete |-> isComplete, errorMsg |-> errorMsg]

\* AI_API_OpenAI_Handler::processStreamChunk
OpenAI_processStreamChunk(l) ==
    IF l.len = 0 THEN ChunkResult("", FALSE, "")
    ELSE IF l.done THEN ChunkResult("", TRUE, "")
    ELSE IF ~l.data THEN ChunkResult("", FALSE, "")
    ELSE IF ~l.jsonOK THEN ChunkResult("", FALSE, ErrChunkJson)
    ELSE IF l.apiErr THEN ChunkResult("", FALSE, ErrChunkApi)
    ELSE ChunkResult(l.text, l.fin # "", "")

\* AI_API_Claude_Handler::processStreamChunk
Claude_processStreamChunk(l) ==
    IF l.len = 0 THEN ChunkResult("", FALSE, "")
    ELSE IF ~l.data THEN ChunkResult("", FALSE, "")
    ELSE IF ~l.jsonOK THEN ChunkResult("", FALSE, ErrChunkJson)
    ELSE IF l.apiErr THEN ChunkResult("", FALSE, ErrChunkApi)
    ELSE IF l.type = "content_block_delta" THEN ChunkResult(l.text, FALSE, "")
    ELSE IF l.type = "message_stop" THEN ChunkResult("", TRUE, "")
    ELSE IF l.type = "error" THEN ChunkResult("", FALSE, ErrChunkStream)
    ELSE ChunkResult("", FALSE, "")

\* AI_API_Gemini_Handler::processStreamChunk
Gemini_processStreamChunk(l) ==
    IF l.len = 0 THEN ChunkResult("", FALSE, "")
    ELSE IF ~l.data THEN ChunkResult("", FALSE, "")
    ELSE IF ~l.jsonOK THEN ChunkResult("", FALSE, ErrChunkJson)
    ELSE IF l.apiErr THEN ChunkResult("", FALSE, ErrChunkApi)
    ELSE ChunkResult(l.text,
                     l.fin \in {"STOP", "MAX_TOKENS", "SAFETY", "RECITATION", "OTHER"}, "")

\* _platformHandler->processStreamChunk (virtual dispatch)
processStreamChunk(h, l) ==
    IF h = "openai" THEN OpenAI_processStreamChunk(l)
    ELSE IF h = "claude" THEN Claude_processStreamChunk(l)
    ELSE Gemini_processStreamChunk(l)

\* _lastFinishReason after a processStreamChunk: every vendor's parser
\* calls resetState() first, and stores the reason of a line it parsed
\* (OpenAI finish_reason, Claude delta.stop_reason of a message_delta,
\* Gemini finishReason)
ChunkFinishReason(h, l) ==
    IF l.len = 0 \/ ~l.data \/ ~l.jsonOK \/ l.apiErr THEN ""
    ELSE IF h = "openai" THEN (IF l.done THEN "" ELSE l.fin)
    ELSE IF h = "claude" THEN (IF l.type = "message_delta" THEN l.fin ELSE "")
    ELSE l.fin

\* --------------------------------------------- tool-call data (strings)
\* A String that tcChat / tcReply return or store is one of: the empty
\* String, a plain text, or the serialisation of a tool-call array.  A
\* tool call is reduced to its id ("" when the element has no id member).
EmptyString == [kind |-> "empty", text |-> "", calls |-> <<>>]
TextString(x) == IF x = "" THEN EmptyString ELSE [kind |-> "text", text |-> x, calls |-> <<>>]
CallsString(ids) == [kind |-> "calls", text |-> "", calls |-> ids]
isEmpty(str) == str.kind = "empty"

\* a parser's outcome: the returned String, errorMsg and the handler's _lastFinishReason
Parsed(content, errorMsg, fin) == [content |-> content, errorMsg |-> errorMsg, fin |-> fin]

\* A response body of the tool-call endpoint, reduced to what the parsers
\* read: valid JSON or not; a non-null "error" member; the vendor's
\* container (OpenAI choices[0], Claude content array, Gemini
\* candidates[0].content) and inner container (OpenAI message object,
\* Gemini parts array); the vendor's finish reason ("" is null); whether a
\* tool-call member is there (OpenAI: message.tool_calls is an array, which
\* may be empty; Claude: a tool_use block; Gemini: a functionCall part) and
\* the ids of the calls; whether a text is there and the text; the token
\* count of the usage member (0: the body has no usage member).
Response(json, apiErr, outer, inner, fin, hasCalls, calls, hasText, text) ==
    [json |-> json, apiErr |-> apiErr, outer |-> outer, inner |-> inner, fin |-> fin,
     hasCalls |-> hasCalls, calls |-> calls, hasText |-> hasText, text |-> text,
     tokens |-> 0]

\* the same body with a usage member of n tokens
WithUsage(r, n) == [r EXCEPT !.tokens = n]

ToolCallIds == {"call_1", "call_2"}

\* the finish reasons a vendor reports in a tool-call response
FinishReasons(h) ==
    IF h = "openai" THEN {"", "stop", "tool_calls"}
    ELSE IF h = "claude" THEN {"", "end_turn", "tool_use", "max_tokens"}
    ELSE {"", "STOP"}

\* the message part of a body: its tool-call member and its text member
Messages ==
    { [hasCalls |-> FALSE, calls |-> <<>>, hasText |-> FALSE, text |-> ""],
      [hasCalls |-> FALSE, calls |-> <<>>, hasText |-> TRUE, text |-> ""],
      [hasCalls |-> FALSE, calls |-> <<>>, hasText |-> TRUE, text |-> "hello"],
      [hasCalls |-> TRUE, calls |-> <<>>, hasText |-> FALSE, text |-> ""],
      [hasCalls |-> TRUE, calls |-> <<"call_1">>, hasText |-> FALSE, text |-> ""],
      [hasCalls |-> TRUE, calls |-> <<"call_1", "call_2">>, hasText |-> FALSE, text |-> ""],
      [hasCalls |-> TRUE, calls |-> <<"call_2">>, hasText |-> TRUE, text |-> "hello"] }

Responses(h) ==
    { Response(FALSE, FALSE, FALSE, FALSE, "", FALSE, <<>>, FALSE, ""),
      Response(TRUE, TRUE, FALSE, FALSE, "", FALSE, <<>>, FALSE, "") }
    \cup { Response(TRUE, FALSE, FALSE, FALSE, fin, FALSE, <<>>, FALSE, "") :
             fin \in FinishReasons(h) }
    \cup { Response(TRUE, FALSE, TRUE, FALSE, fin, FALSE, <<>>, FALSE, "") :
             fin \in FinishReasons(h) }
    \cup { Response(TRUE, FALSE, TRUE, TRUE, fin, m.hasCalls, m.calls, m.hasText, m.text) :
             fin \in FinishReasons(h), m \in Messages }

\* the responses a vendor's wire format can express: without a tool-call
\* member there are no calls, without a text member there is no text, and a
\* Claude/Gemini body has the tool-call member exactly when it has a call
WellFormed(h, r) ==
    /\ (~r.hasCalls => r.calls = <<>>)
    /\ (~r.hasText => r.text = "")
    /\ (h # "openai" => (r.hasCalls <=> r.calls # <<>>))

\* AI_API_OpenAI_Handler::parseToolCallsResponseBody
OpenAI_parseToolCallsResponseBody(r) ==
    IF ~r.json THEN Parsed(EmptyString, ErrJson, "")
    ELSE IF r.apiErr THEN Parsed(EmptyString, ApiError(ErrApi), "")
    ELSE IF ~r.outer THEN Parsed(EmptyString, ErrNoChoice, "")
    ELSE IF r.inner /\ r.hasCalls THEN Parsed(CallsString(r.calls), "", r.fin)
    ELSE IF r.inner /\ r.hasText THEN Parsed(TextString(r.text), "", r.fin)
    ELSE Parsed(EmptyString, ErrNoChoice, r.fin)

\* AI_API_Claude_Handler::parseToolCallsResponseBody
Claude_parseToolCallsResponseBody(r) ==
    IF ~r.json THEN Parsed(EmptyString, ErrJson, "")
    ELSE IF r.apiErr THEN Parsed(EmptyString, ApiError(ErrClaudeApi), "")
    ELSE IF ~r.outer THEN Parsed(EmptyString, ErrNoContentArray, r.fin)
    ELSE IF r.hasCalls THEN Parsed(CallsString(r.calls), "", r.fin)
    ELSE Parsed(TextString(r.text), "", r.fin)

\* AI_API_Gemini_Handler::parseToolCallsResponseBody (the elements it
\* builds carry type and function, no id)
Gemini_parseToolCallsResponseBody(r) ==
    IF ~r.json THEN Parsed(EmptyString, ErrJson, "")
    ELSE IF r.apiErr THEN Parsed(EmptyString, ApiError(ErrApi), "")
    ELSE IF ~r.outer THEN Parsed(EmptyString, ErrNoCandidates, "")
    ELSE IF ~r.inner THEN Parsed(EmptyString, ErrNoParts, "")
    ELSE IF r.hasCalls
         THEN Parsed(CallsString([i \in 1..Len(r.calls) |-> ""]), "", "tool_calls")
    ELSE IF r.hasText THEN Parsed(TextString(r.text), "", "stop")
    ELSE Parsed(EmptyString, ErrNeither, "")

\* _platformHandler->parseToolCallsResponseBody (virtual dispatch)
parseToolCallsResponseBody(h, r) ==
    IF h = "openai" THEN OpenAI_parseToolCallsResponseBody(r)
    ELSE IF h = "claude" THEN Claude_parseToolCallsResponseBody(r)
    ELSE Gemini_parseToolCallsResponseBody(r)

\* _lastTotalTokens after a parseToolCallsResponseBody: every vendor's
\* parser resets it and reads the usage member once the body has parsed
\* and has no "error" member
ToolCallsTokens(r) == IF r.json /\ ~r.apiErr THEN r.tokens ELSE 0

\* the branch of tcChat / tcReply on getFinishReason()
IsToolCallFinish(fin) == fin = "tool_calls" \/ fin = "tool_use"

\* ------------------------------------------------ tool results (tcReply)
\* One element of the toolResultsJson array: which members it has, and the
\* value of tool_call_id.
ToolResult(hasId, hasFunction, hasName, hasOutput, id) ==
    [hasId |-> hasId, hasFunction |-> hasFunction, hasName |-> hasName,
     hasOutput |-> hasOutput, id |-> id]

GoodResult(id) == ToolResult(TRUE, TRUE, TRUE, TRUE, id)

NoIdResult == ToolResult(FALSE, TRUE, TRUE, TRUE, "")
NoFunctionResult == ToolResult(TRUE, FALSE, FALSE, FALSE, "call_1")
NoNameResult == ToolResult(TRUE, TRUE, FALSE, TRUE, "call_1")
NoOutputResult == ToolResult(TRUE, TRUE, TRUE, FALSE, "call_1")

\* toolResultsJson: its length, whether it parses, whether it is an array,
\* and its elements
ToolResults(len, json, isArray, elems) ==
    [len |-> len, json |-> json, isArray |-> isArray, elems |-> elems]

NoInput == ToolResults(0, FALSE, FALSE, <<>>)

ElemLists ==
    { <<>>,
      <<GoodResult("call_1")>>,
      <<GoodResult("call_9")>>,
      <<GoodResult("call_1"), GoodResult("call_2")>>,
      <<GoodResult("call_1"), GoodResult("call_9")>>,
      <<NoIdResult>>,
      <<NoFunctionResult>>,
      <<NoNameResult>>,
      <<NoOutputResult>>,
      <<GoodResult("call_1"), NoOutputResult>>,
      <<NoNameResult, GoodResult("call_2")>> }

ToolResultsInputs ==
    { ToolResults(AI_API_REQ_JSON_DOC_SIZE \div 2 + 1, TRUE, TRUE, <<GoodResult("call_1")>>),
      ToolResults(7, FALSE, FALSE, <<>>),
      ToolResults(9, TRUE, FALSE, <<>>),
      ToolResults(AI_API_REQ_JSON_DOC_SIZE \div 2, TRUE, TRUE, <<GoodResult("call_1")>>) }
    \cup { ToolResults(100, TRUE, TRUE, es) : es \in ElemLists }

\* the first element the validation loop of tcReply rejects, as its message
RECURSIVE ElemError(_, _)
ElemError(es, i) ==
    IF i > Len(es) THEN NoError
    ELSE IF ~es[i].hasId THEN ErrResultNoId
    ELSE IF ~es[i].hasFunction THEN ErrResultNoFunction
    ELSE IF ~es[i].hasName THEN ErrResultNoName
    ELSE IF ~es[i].hasOutput THEN ErrResultNoOutput
    ELSE ElemError(es, i + 1)

\* ValidateToolResults without the length check
ValidateToolResults_NoLengthCheck(in) ==
    IF ~in.json THEN ErrResultsJson
    ELSE IF ~in.isArray THEN ErrResultsNotArray
    ELSE ElemError(in.elems, 1)

\* tcReply, "--- Validate toolResultsJson ---": the error it reports, or NoError
ValidateToolResults(in) ==
    IF in.len > AI_API_REQ_JSON_DOC_SIZE \div 2 THEN ErrResultsTooLarge
    ELSE IF ~in.json THEN ErrResultsJson
    ELSE IF ~in.isArray THEN ErrResultsNotArray
    ELSE ElemError(in.elems, 1)

\* buildToolCallsFollowUpRequestBody returns a body: the OpenAI and Gemini
\* builders always do; the Claude builder returns "" when the stored
\* assistant turn does not parse as JSON (or on an exception)
FollowUpBuilds(h, assistantJson) ==
    IF h = "claude" THEN assistantJson.kind = "calls" ELSE TRUE

\* ------------------------------------------------ tool definitions (setTCTools)
\* One String of the tcTools array: its length, whether it parses as JSON,
\* the keys of the top-level object and the keys of its "function" member
\* (no keys when there is no such member or it is not an object).
ToolSpec(len, json, keys, fkeys) ==
    [len |-> len, json |-> json, keys |-> keys, fkeys |-> fkeys]

\* {"name": .., "description": .., "parameters": {..}}
SimpleTool == ToolSpec(100, TRUE, {"name", "description", "parameters"}, {})
\* {"type": "function", "function": {"name": .., "description": .., "parameters": {..}}}
WrappedTool == ToolSpec(120, TRUE, {"type", "function"}, {"name", "description", "parameters"})
\* a valid tool of which two exceed the size limit together
LongTool == ToolSpec(AI_API_REQ_JSON_DOC_SIZE \div 4 + 1, TRUE, {"name", "parameters"}, {})
\* a valid tool that exceeds the size limit alone
OversizedTool == ToolSpec(AI_API_REQ_JSON_DOC_SIZE \div 2 + 1, TRUE, {"name", "parameters"}, {})
NotJsonTool == ToolSpec(40, FALSE, {}, {})

ValidTools == {SimpleTool, WrappedTool, LongTool}

InvalidTools ==
    { NotJsonTool,
      ToolSpec(60, TRUE, {"name", "description"}, {}),
      ToolSpec(60, TRUE, {"description", "parameters"}, {}),
      ToolSpec(80, TRUE, {"type", "function"}, {"name", "description"}),
      ToolSpec(80, TRUE, {"type", "function"}, {"description", "parameters"}),
      ToolSpec(80, TRUE, {"type", "parameters"}, {}),
      ToolSpec(80, TRUE, {"function"}, {"name", "parameters"}) }

\* the tools of the tool-call round trip, whose steps do not read them
RoundTripTools == {SimpleTool, NotJsonTool}

\* the batches of at most n tools drawn from ts
Batches(ts, n) == UNION { [1..k -> ts] : k \in 0..n }

RECURSIVE TotalLength(_, _)
TotalLength(batch, i) ==
    IF i > Len(batch) THEN 0 ELSE batch[i].len + TotalLength(batch, i + 1)

\* setTCTools, the checks on one tool: hasName
ToolHasName(t) ==
    IF "name" \in t.keys THEN TRUE
    ELSE IF "type" \in t.keys /\ "function" \in t.keys THEN "name" \in t.fkeys
    ELSE FALSE

\* hasParameters that does not look inside the "function" member
ToolHasParameters_FunctionNotRead(t) ==
    IF "name" \in t.keys THEN "parameters" \in t.keys
    ELSE "type" \in t.keys /\ "function" \in t.keys

\* setTCTools, the checks on one tool: hasParameters
ToolHasParameters(t) ==
    IF "name" \in t.keys THEN "parameters" \in t.keys
    ELSE IF "type" \in t.keys /\ "function" \in t.keys THEN "parameters" \in t.fkeys
    ELSE FALSE

\* setTCTools, "VALIDATION STEP 2": the error of the first tool the loop
\* rejects, or NoError
RECURSIVE ToolError(_, _)
ToolError(batch, i) ==
    IF i > Len(batch) THEN NoError
    ELSE IF ~batch[i].json THEN ErrToolJson
    ELSE IF ~ToolHasName(batch[i]) THEN ErrToolNoName
    ELSE IF ~ToolHasParameters(batch[i]) THEN ErrToolNoParameters
    ELSE ToolError(batch, i + 1)

\* setTCTools, both validation steps: the error it returns false with, or
\* NoError
ValidateTools(batch) ==
    IF TotalLength(batch, 1) > AI_API_REQ_JSON_DOC_SIZE \div 2 THEN ErrToolsTooLarge
    ELSE ToolError(batch, 1)

\* ------------------------------------------------------------ thread state
\* loc: cb the callback argument is not null, n localChunkCount, complete
\* streamComplete, interrupted userInterrupted, success what the call
\* returns; err and st are _lastError and _streamState at the instant the
\* call returned (pc = "ret").
NoLocals == [cb |-> FALSE, n |-> 0, complete |-> FALSE, interrupted |-> FALSE,
             success |-> FALSE, err |-> NoError, st |-> IDLE]

\* the finish reason the vendor reports in a line: the finish_reason of an
\* OpenAI chunk, the stop_reason of a Claude message_delta event, the
\* finishReason of a Gemini chunk ("" when the line reports none)
Reported(h, l) ==
    IF l.data /\ l.jsonOK /\ ~l.apiErr /\ (h = "claude" => l.type = "message_delta")
    THEN l.fin ELSE ""

\* hist: op the method the thread executes, posted: this call POSTed to the
\* transport, called: this call invoked a callback, cbFalse: a callback
\* invocation of this call returned false,
\* cbAfterFalse: the callback was invoked after that, stopHit: a
\* stopStreaming call changed the state from ACTIVE to STOPPING while this
\* call was in its read loop, stopInterf / resetInterf / errInterf: while
\* this call ran, another thread's stopStreaming wrote the state /
\* streamChatReset ran / another call wrote _lastError.  timedOut: the chunk
\* timeout of this call expired, reported: the last finish reason the vendor
\* reported in a line of this call, dropped: in state ACTIVE a line with
\* content or the completion flag was not handed to a callback.
NoHist == [op |-> "none", posted |-> FALSE, called |-> FALSE, cbFalse |-> FALSE,
           cbAfterFalse |-> FALSE, stopHit |-> FALSE,
           stopInterf |-> FALSE, resetInterf |-> FALSE, errInterf |-> FALSE,
           timedOut |-> FALSE, reported |-> "", dropped |-> FALSE]

\* tcLog, the last tool-call operation: op the method; defect what is wrong
\* with the toolResultsJson argument of a tcReply or with the batch of a
\* setTCTools ("" when nothing is);
\* known whether every tool_call_id of the argument is the id of a call of
\* the stored assistant turn; result the String returned; posted whether
\* the call POSTed to the transport; kept whether the call left
\* _lastUserMessage, _lastAssistantToolCallsJson and _lastMessageWasToolCalls
\* as they were; turn the outcome of the latest operation that defines the
\* conversation turn, and prevTurn the same before this operation.
\* got is what the transport gave this call: the HTTP status POST returned
\* (0: the call did not get as far as the POST), the kind of payload read
\* ("" none), and the finish reason and token count in a 200 body.
NoGot == [code |-> 0, payload |-> "", fin |-> "", tokens |-> 0, apiErr |-> FALSE]

NoLog == [op |-> "none", defect |-> "", known |-> TRUE, result |-> EmptyString,
          posted |-> FALSE, kept |-> TRUE, turn |-> "fresh", prevTurn |-> "fresh",
          got |-> NoGot]

\* what is wrong with a toolResultsJson argument
RECURSIVE ElemDefect(_, _)
ElemDefect(es, i) ==
    IF i > Len(es) THEN ""
    ELSE IF ~es[i].hasId THEN "lacks tool_call_id"
    ELSE IF ~es[i].hasFunction THEN "lacks function"
    ELSE IF ~es[i].hasName THEN "lacks function.name"
    ELSE IF ~es[i].hasOutput THEN "lacks function.output"
    ELSE ElemDefect(es, i + 1)

Defect(in) ==
    IF in.len > 2560 THEN "oversized"
    ELSE IF ~in.json THEN "not JSON"
    ELSE IF ~in.isArray THEN "not an array"
    ELSE ElemDefect(in.elems, 1)

\* every tool_call_id of the argument names a call of the assistant turn json
IdsKnown(in, json) ==
    \A i \in 1..Len(in.elems) :
        \E j \in 1..Len(json.calls) : json.calls[j] # "" /\ json.calls[j] = in.elems[i].id

\* a thread is inside a public streaming method
InCall(t) == pc[t] \notin {"idle", "ret"}
LoopPcs == {"sc_loop", "sc_cb", "sc_poll"}

\* the other threads' calls see an interference of kind f
Interfere(h, t, f) ==
    [u \in Threads |-> IF u # t /\ InCall(u) THEN [h[u] EXCEPT ![f] = TRUE] ELSE h[u]]

\* a write of _lastError by thread t is seen by the other calls in progress
ErrWritten(h, t) == Interfere(h, t, "errInterf")

\* thread t returns res from its method; the caller then sees err and st
Returned(t, l, res, err, st) ==
    /\ pc' = [pc EXCEPT ![t] = "ret"]
    /\ loc' = [loc EXCEPT ![t] = [l EXCEPT !.success = res, !.err = err, !.st = st]]

\* ------------------------------------------------------------------- Init
\* The constructor calls begin(): the handler is one of the vendors, or
\* nullptr for an unsupported platform; the stream fields have their
\* in-class initial values.
InitStream ==
    /\ platformHandler \in Platforms
    /\ lastError = IF platformHandler = "none" THEN ErrUnsupported ELSE NoError
    /\ streamState = IDLE
    /\ streamCallback = NoThread
    /\ streamChunkCount = 0
    /\ streamTotalBytes = 0
    /\ streamResponseCode = 0
    /\ streamMutex = NoThread
    /\ pc = [t \in Threads |-> "idle"]
    /\ loc = [t \in Threads |-> NoLocals]
    /\ hist = [t \in Threads |-> NoHist]

\* no handler function applied
NoPure == [fn |-> "none", in |-> "", out |-> "", done |-> FALSE]

\* the tool-call fields after construction (in-class initialisers)
InitTC ==
    /\ tcToolsArraySize = 0
    /\ tcToolsArray = <<>>
    /\ lastUserMessage = ""
    /\ lastAssistantToolCallsJson = EmptyString
    /\ lastMessageWasToolCalls = FALSE
    /\ lastFinishReason = ""
    /\ lastTotalTokens = 0
    /\ chatRawResponse = ""
    /\ chatResponseCode = 0
    /\ tcRawResponse = ""
    /\ tcChatResponseCode = 0
    /\ tcReplyResponseCode = 0
    /\ tcLog = NoLog

Init == InitStream /\ InitTC /\ pure = NoPure

\* ------------------------------------------------------- the stream mutex
\* _acquireStreamLock(timeoutMs): xSemaphoreTake succeeds unless another
\* thread keeps the mutex for longer than the timeout
AcquireStreamLock(t) == streamMutex = NoThread

\* _releaseStreamLock that does not give the mutex back
ReleaseStreamLock_Keeps(t) == t

\* _releaseStreamLock: xSemaphoreGive, the mutex is free again
ReleaseStreamLock(t) == NoThread

\* the mutex after "if (_acquireStreamLock(..)) { ..; _releaseStreamLock(); }"
Section(t) == IF AcquireStreamLock(t) THEN ReleaseStreamLock(t) ELSE streamMutex

\* _setStreamState(newState): the write is skipped when the lock is not
\* acquired
SetStreamState(t, newState) ==
    /\ streamState' = IF AcquireStreamLock(t) THEN newState ELSE streamState
    /\ streamMutex' = Section(t)

\* ------------------------------------------------------------ streamChat
\* ESP32_AI_Connect::streamChat, the quick check "_getStreamState() != IDLE".
\* cb is the callback argument (FALSE: a null callback).
StreamChatQuickCheck(t) ==
    /\ pc[t] = "idle"
    /\ \E cb \in BOOLEAN :
          LET l == [NoLocals EXCEPT !.cb = cb]
          IN  IF streamState # IDLE
              THEN /\ lastError' = ErrInProgress
                   /\ hist' = ErrWritten([hist EXCEPT ![t].op = "streamChat"], t)
                   /\ Returned(t, l, FALSE, lastError', streamState)
              ELSE /\ pc' = [pc EXCEPT ![t] = "sc_lock"]
                   /\ loc' = [loc EXCEPT ![t] = l]
                   /\ hist' = [hist EXCEPT ![t].op = "streamChat"]
                   /\ UNCHANGED lastError
    /\ UNCHANGED <<platformHandler, streamVars, tcVars>>

\* StartError without the second state check under the lock
StartError_NoDoubleCheck(st, h, cb) ==
    IF h = "none" THEN ErrNoHandler
    ELSE IF ~cb THEN ErrNullCallback
    ELSE NoError

\* the first error the critical section of streamChat finds, or NoError
StartError(st, h, cb) ==
    IF st # IDLE THEN ErrInProgress
    ELSE IF h = "none" THEN ErrNoHandler
    ELSE IF ~cb THEN ErrNullCallback
    ELSE NoError

\* the critical section of streamChat: double check, validation, initialisation
StreamChatLocked(t) ==
    /\ pc[t] = "sc_lock"
    /\ IF ~AcquireStreamLock(t)
       THEN /\ lastError' = ErrLockTimeout
            /\ Returned(t, loc[t], FALSE, ErrLockTimeout, streamState)
            /\ UNCHANGED streamVars
       ELSE LET e == StartError(streamState, platformHandler, loc[t].cb)
            IN  /\ lastError' = e
                /\ streamMutex' = ReleaseStreamLock(t)
                /\ IF e # NoError
                   THEN /\ Returned(t, loc[t], FALSE, e, streamState)
                        /\ UNCHANGED sessionVars
                   ELSE /\ streamState' = STARTING
                        /\ streamCallback' = t
                        /\ streamChunkCount' = 0
                        /\ streamTotalBytes' = 0
                        /\ streamResponseCode' = 0
                        /\ pc' = [pc EXCEPT ![t] = "sc_build"]
                        /\ loc' = loc
    /\ hist' = ErrWritten(hist, t)
    /\ UNCHANGED <<platformHandler, tcVars>>

\* the stream parameters are read in a critical section, then
\* buildStreamRequestBody: the OpenAI and Gemini builders always return a
\* body; the Claude builder returns "" when it catches an exception.
\* (getStreamEndpoint never returns an empty URL.)
StreamChatBuild(t) ==
    /\ pc[t] = "sc_build"
    /\ \E built \in (IF platformHandler = "claude" THEN BOOLEAN ELSE {TRUE}) :
          IF built
          THEN /\ pc' = [pc EXCEPT ![t] = "sc_post"]
               /\ UNCHANGED <<lastError, loc, hist>>
          ELSE /\ lastError' = IF lastError = NoError THEN ErrBuildStream ELSE lastError
               /\ loc' = [loc EXCEPT ![t].success = FALSE]
               /\ hist' = ErrWritten(hist, t)
               /\ pc' = [pc EXCEPT ![t] = "sc_fin"]
    /\ streamMutex' = Section(t)
    /\ UNCHANGED <<platformHandler, sessionVars, tcVars>>

\* _processStreamResponse up to the read loop: begin, POST, response code
StreamChatPost(t) ==
    /\ pc[t] = "sc_post"
    /\ \E outcome \in {"beginFailed", "requestFailed", "httpError", "ok"} :
          /\ hist' = IF outcome = "beginFailed"
                     THEN ErrWritten(hist, t)
                     ELSE IF outcome = "ok"
                     THEN [hist EXCEPT ![t].posted = TRUE]
                     ELSE ErrWritten([hist EXCEPT ![t].posted = TRUE], t)
          /\ streamResponseCode' =
                IF outcome = "beginFailed" \/ ~AcquireStreamLock(t) THEN streamResponseCode
                ELSE CASE outcome = "requestFailed" -> -1
                       [] outcome = "httpError" -> 401
                       [] outcome = "ok" -> HTTP_CODE_OK
          /\ streamMutex' = IF outcome = "beginFailed" THEN streamMutex ELSE Section(t)
          /\ lastError' = CASE outcome = "beginFailed" -> ErrBeginFailed
                            [] outcome = "requestFailed" -> ErrRequestFailed
                            [] outcome = "httpError" -> ErrHttp
                            [] outcome = "ok" -> lastError
          /\ pc' = [pc EXCEPT ![t] = IF outcome = "ok" THEN "sc_active" ELSE "sc_fin"]
          /\ loc' = [loc EXCEPT ![t].success = FALSE]
    /\ UNCHANGED <<platformHandler, streamState, streamCallback, streamChunkCount,
                   streamTotalBytes, tcVars>>

\* _setStreamState(StreamState::ACTIVE) before the read loop
StreamChatSetActive(t) ==
    /\ pc[t] = "sc_active"
    /\ SetStreamState(t, ACTIVE)
    /\ pc' = [pc EXCEPT ![t] = "sc_loop"]
    /\ UNCHANGED <<platformHandler, lastError, streamCallback, streamChunkCount,
                   streamTotalBytes, streamResponseCode, loc, hist, tcVars>>

\* LoopResult with a user interruption reported like an unfinished stream
LoopResult_InterruptIsFailure(streamComplete, userInterrupted) ==
    streamComplete /\ ~userInterrupted

\* what _processStreamResponse returns after the loop
LoopResult(streamComplete, userInterrupted) ==
    IF userInterrupted THEN TRUE ELSE streamComplete

\* the loop is left: cleanup of the connection, then the return value
LeaveLoop(t, l) ==
    /\ loc' = [loc EXCEPT ![t] = [l EXCEPT !.success = LoopResult(l.complete, l.interrupted)]]
    /\ pc' = [pc EXCEPT ![t] = "sc_fin"]

\* the while condition of the read loop
LoopCondition(connected, st, streamComplete, userInterrupted) ==
    connected /\ st = ACTIVE /\ ~streamComplete /\ ~userInterrupted

\* one turn of the read loop: the while condition, then either a line is
\* read, counted and parsed, or the timeout is tested
StreamChatLoop(t) ==
    /\ pc[t] = "sc_loop"
    /\ \E connected \in BOOLEAN :
          IF ~LoopCondition(connected, streamState, loc[t].complete, loc[t].interrupted)
          THEN /\ LeaveLoop(t, loc[t])
               /\ UNCHANGED <<lastError, streamChunkCount, streamTotalBytes, streamMutex, hist,
                              lastFinishReason, lastTotalTokens>>
          ELSE \/ \E line \in Lines :
                     LET r == processStreamChunk(platformHandler, line)
                         l == [loc[t] EXCEPT !.n = @ + 1]
                         h == [hist EXCEPT ![t].reported =
                                  IF Reported(platformHandler, line) # ""
                                  THEN Reported(platformHandler, line) ELSE @]
                     IN  /\ loc[t].n < MaxChunks
                         /\ streamTotalBytes' = IF AcquireStreamLock(t)
                                                THEN streamTotalBytes + line.len
                                                ELSE streamTotalBytes
                         /\ streamChunkCount' = IF AcquireStreamLock(t) THEN l.n
                                                ELSE streamChunkCount
                         /\ streamMutex' = Section(t)
                         /\ lastFinishReason' = ChunkFinishReason(platformHandler, line)
                         /\ lastTotalTokens' = 0
                         /\ IF r.errorMsg # ""
                            THEN /\ lastError' = r.errorMsg
                                 /\ hist' = ErrWritten(h, t)
                                 /\ LeaveLoop(t, l)
                            ELSE /\ loc' = [loc EXCEPT ![t] =
                                             [l EXCEPT !.complete = r.isComplete]]
                                 /\ pc' = [pc EXCEPT ![t] =
                                             IF r.content # "" \/ r.isComplete
                                             THEN "sc_cb" ELSE "sc_loop"]
                                 /\ hist' = h
                                 /\ UNCHANGED lastError
               \/ \E expired \in BOOLEAN :
                     /\ IF expired
                        THEN /\ lastError' = ErrStreamTimeout
                             /\ hist' = ErrWritten([hist EXCEPT ![t].timedOut = TRUE], t)
                             /\ LeaveLoop(t, loc[t])
                        ELSE /\ pc' = [pc EXCEPT ![t] = "sc_poll"]
                             /\ UNCHANGED <<lastError, loc, hist>>
                     /\ UNCHANGED <<streamChunkCount, streamTotalBytes, streamMutex,
                                    lastFinishReason, lastTotalTokens>>
    /\ UNCHANGED <<platformHandler, streamState, streamCallback, streamResponseCode, toolVars,
                   pure, lastUserMessage, lastAssistantToolCallsJson, lastMessageWasToolCalls,
                   rawVars, tcLog>>

\* the callback is fetched under the lock and, when not null, invoked;
\* keepGoing is what it returns
StreamChatCallback(t) ==
    /\ pc[t] = "sc_cb"
    /\ streamMutex' = Section(t)
    /\ IF ~AcquireStreamLock(t) \/ streamCallback = NoThread
       THEN /\ pc' = [pc EXCEPT ![t] = "sc_loop"]
            /\ hist' = [hist EXCEPT ![t].dropped = @ \/ streamState = ACTIVE]
            /\ loc' = loc
       ELSE \E keepGoing \in BOOLEAN :
               /\ hist' = [hist EXCEPT ![t].called = TRUE,
                                       ![t].cbAfterFalse = @ \/ hist[t].cbFalse,
                                       ![t].cbFalse = @ \/ ~keepGoing]
               /\ IF keepGoing
                  THEN /\ pc' = [pc EXCEPT ![t] = "sc_loop"]
                       /\ loc' = loc
                  ELSE LeaveLoop(t, [loc[t] EXCEPT !.interrupted = TRUE])
    /\ UNCHANGED <<platformHandler, lastError, sessionVars, tcVars>>

\* the idle branch after the timeout test: "_getStreamState() == STOPPING"
StreamChatPoll(t) ==
    /\ pc[t] = "sc_poll"
    /\ IF streamState = STOPPING
       THEN LeaveLoop(t, [loc[t] EXCEPT !.interrupted = TRUE])
       ELSE /\ pc' = [pc EXCEPT ![t] = "sc_loop"]
            /\ loc' = loc
    /\ UNCHANGED <<platformHandler, lastError, streamVars, hist, tcVars>>

\* FinalState that leaves Idle after a failure as well
FinalState_Idle(success) == IDLE

\* the state a finished streamChat leaves
FinalState(success) == IF success THEN IDLE ELSE ERROR

\* the end of streamChat: _setStreamState(IDLE or ERROR) and the return
StreamChatFinish(t) ==
    /\ pc[t] = "sc_fin"
    /\ SetStreamState(t, FinalState(loc[t].success))
    /\ Returned(t, loc[t], loc[t].success, lastError, streamState')
    /\ UNCHANGED <<platformHandler, lastError, streamCallback, streamChunkCount,
                   streamTotalBytes, streamResponseCode, hist, tcVars>>

\* ---------------------------------------------------------- stopStreaming
\* the states in which stopStreaming requests the stop
StopApplies(st) == st = ACTIVE \/ st = STARTING

\* stopStreaming, the unlocked read "currentState = _getStreamState()"
StopStreamingRead(t) ==
    /\ pc[t] = "idle"
    /\ hist' = [hist EXCEPT ![t].op = "stopStreaming"]
    /\ IF StopApplies(streamState)
       THEN /\ pc' = [pc EXCEPT ![t] = "st_set"]
            /\ loc' = [loc EXCEPT ![t] = NoLocals]
       ELSE Returned(t, NoLocals, TRUE, lastError, streamState)
    /\ UNCHANGED <<platformHandler, lastError, streamVars, tcVars>>

\* stopStreaming, "_setStreamState(StreamState::STOPPING)"
StopStreamingSet(t) ==
    /\ pc[t] = "st_set"
    /\ SetStreamState(t, STOPPING)
    /\ hist' = [u \in Threads |->
                  IF u # t /\ InCall(u) /\ AcquireStreamLock(t)
                  THEN [hist[u] EXCEPT !.stopInterf = TRUE,
                                       !.stopHit = @ \/ (streamState = ACTIVE /\ pc[u] \in LoopPcs)]
                  ELSE hist[u]]
    /\ Returned(t, loc[t], TRUE, lastError, streamState')
    /\ UNCHANGED <<platformHandler, lastError, streamCallback, streamChunkCount,
                   streamTotalBytes, streamResponseCode, tcVars>>

\* -------------------------------------------------------- streamChatReset
\* streamChatReset: one critical section
StreamChatReset(t) ==
    /\ pc[t] = "idle"
    /\ IF ~AcquireStreamLock(t)
       THEN /\ hist' = [hist EXCEPT ![t].op = "streamChatReset"]
            /\ UNCHANGED streamVars
       ELSE /\ streamState' = IDLE
            /\ streamCallback' = NoThread
            /\ streamResponseCode' = 0
            /\ streamChunkCount' = 0
            /\ streamTotalBytes' = 0
            /\ streamMutex' = ReleaseStreamLock(t)
            /\ hist' = Interfere([hist EXCEPT ![t].op = "streamChatReset"], t, "resetInterf")
    /\ Returned(t, NoLocals, TRUE, lastError, streamState')
    /\ UNCHANGED <<platformHandler, lastError, tcVars>>

\* ------------------------------------------- locked getters and setters
\* getStreamChatRawResponse, getStreamChatResponseCode and the
\* setStreamChat* setters, "if (_acquireStreamLock(100))": the mutex is
\* taken, or the call returns its default
GetterAcquire(t) ==
    /\ pc[t] = "idle"
    /\ hist' = [hist EXCEPT ![t].op = "getter"]
    /\ IF AcquireStreamLock(t)
       THEN /\ streamMutex' = t
            /\ pc' = [pc EXCEPT ![t] = "g_held"]
            /\ loc' = [loc EXCEPT ![t] = NoLocals]
       ELSE /\ Returned(t, NoLocals, FALSE, lastError, streamState)
            /\ UNCHANGED streamMutex
    /\ UNCHANGED <<platformHandler, lastError, sessionVars, tcVars>>

\* the access to the field under the lock, "_releaseStreamLock()" and the
\* return
GetterRelease(t) ==
    /\ pc[t] = "g_held"
    /\ streamMutex' = ReleaseStreamLock(t)
    /\ Returned(t, loc[t], TRUE, lastError, streamState)
    /\ UNCHANGED <<platformHandler, lastError, sessionVars, hist, tcVars>>

\* the caller has looked at what the method returned and is ready for its next call
Resume(t) ==
    /\ pc[t] = "ret"
    /\ pc' = [pc EXCEPT ![t] = "idle"]
    /\ loc' = [loc EXCEPT ![t] = NoLocals]
    /\ hist' = [hist EXCEPT ![t] = NoHist]
    /\ UNCHANGED <<platformHandler, lastError, streamVars, tcVars>>

\* A thread at "ret" only shows what its call returned: the caller's next
\* step follows before any other thread is looked at, which leaves every
\* interleaving of the methods themselves in place.
NoneReturned == \A u \in Threads : pc[u] # "ret"

NextStream ==
    \E t \in Threads :
        \/ NoneReturned /\ StreamChatQuickCheck(t)
        \/ NoneReturned /\ StreamChatLocked(t)
        \/ NoneReturned /\ StreamChatBuild(t)
        \/ NoneReturned /\ StreamChatPost(t)
        \/ NoneReturned /\ StreamChatSetActive(t)
        \/ NoneReturned /\ StreamChatLoop(t)
        \/ NoneReturned /\ StreamChatCallback(t)
        \/ NoneReturned /\ StreamChatPoll(t)
        \/ NoneReturned /\ StreamChatFinish(t)
        \/ NoneReturned /\ StopStreamingRead(t)
        \/ NoneReturned /\ StopStreamingSet(t)
        \/ NoneReturned /\ StreamChatReset(t)
        \/ Resume(t)

\* One thread runs streamChat while another calls the locked getters and
\* setters, stopStreaming and streamChatReset.
Streamer == "t1"
Observer == "t2"

NextLock ==
    \/ NoneReturned /\ StreamChatQuickCheck(Streamer)
    \/ NoneReturned /\ StreamChatLocked(Streamer)
    \/ NoneReturned /\ StreamChatBuild(Streamer)
    \/ NoneReturned /\ StreamChatPost(Streamer)
    \/ NoneReturned /\ StreamChatSetActive(Streamer)
    \/ NoneReturned /\ StreamChatLoop(Streamer)
    \/ NoneReturned /\ StreamChatCallback(Streamer)
    \/ NoneReturned /\ StreamChatPoll(Streamer)
    \/ NoneReturned /\ StreamChatFinish(Streamer)
    \/ NoneReturned /\ GetterAcquire(Observer)
    \/ NoneReturned /\ GetterRelease(Observer)
    \/ NoneReturned /\ StopStreamingRead(Observer)
    \/ NoneReturned /\ StopStreamingSet(Observer)
    \/ NoneReturned /\ StreamChatReset(Observer)
    \/ \E t \in Threads : Resume(t)

SpecLock == Init /\ [][NextLock]_vars

\* ------------------------------------------------- tool-call round trip
\* The tool-call methods are called by one thread at a time (the library
\* gives them no lock), and not while a stream call runs.
Quiet == \A t \in Threads : pc[t] = "idle"

HttpOutcomes == {"beginFailed", "requestFailed", "httpError", "ok"}

\* the turn a tcChat leaves
ChatTurn(result) ==
    IF result.kind = "calls" THEN "chatCalls"
    ELSE IF result.kind = "text" THEN "chatText" ELSE "chatFailed"

\* the turn a tcReply leaves: a failed reply leaves the turn as it was
ReplyTurn(result, turn) ==
    IF result.kind = "calls" THEN "replyCalls"
    ELSE IF result.kind = "text" THEN "replyText" ELSE turn

\* the log entry of an operation (defect, known, kept and prevTurn are
\* recorded for tcReply only)
Logged(op, in, result, posted, turn, got) ==
    [op |-> op,
     defect |-> IF op = "tcReply" THEN Defect(in) ELSE "",
     known |-> IF op = "tcReply" THEN IdsKnown(in, lastAssistantToolCallsJson) ELSE TRUE,
     result |-> result, posted |-> posted,
     kept |-> IF op = "tcReply"
              THEN /\ lastUserMessage' = lastUserMessage
                   /\ lastAssistantToolCallsJson' = lastAssistantToolCallsJson
                   /\ lastMessageWasToolCalls' = lastMessageWasToolCalls
              ELSE TRUE,
     turn |-> turn,
     prevTurn |-> IF op = "tcReply" THEN tcLog.turn ELSE "fresh",
     got |-> got]

\* Begin that also drops the registered tools
Begin_DropsTools(p) ==
    /\ Quiet
    /\ platformHandler' = p
    /\ lastError' = IF p = "none" THEN ErrUnsupported ELSE NoError
    /\ lastFinishReason' = ""
    /\ lastTotalTokens' = 0
    /\ tcToolsArray' = <<>>
    /\ tcToolsArraySize' = 0
    /\ tcLog' = Logged("begin", NoInput, EmptyString, FALSE, tcLog.turn, NoGot)
    /\ UNCHANGED <<streamVars, threadVars, pure, lastUserMessage,
                   lastAssistantToolCallsJson, lastMessageWasToolCalls, rawVars>>

\* ESP32_AI_Connect::begin: re-initialisation with a platform identifier;
\* the previous handler is deleted and the new one starts with a cleared
\* finish reason and token count
Begin(p) ==
    /\ Quiet
    /\ platformHandler' = p
    /\ lastError' = IF p = "none" THEN ErrUnsupported ELSE NoError
    /\ lastFinishReason' = ""
    /\ lastTotalTokens' = 0
    /\ tcLog' = Logged("begin", NoInput, EmptyString, FALSE, tcLog.turn, NoGot)
    /\ UNCHANGED <<streamVars, threadVars, toolVars, pure, lastUserMessage,
                   lastAssistantToolCallsJson, lastMessageWasToolCalls, rawVars>>

\* a tool definition in the simple form / in the OpenAI-wrapped form
SimpleForm(t) == {"name", "parameters"} \subseteq t.keys
WrappedForm(t) ==
    /\ {"type", "function"} \subseteq t.keys
    /\ {"name", "parameters"} \subseteq t.fkeys

\* what is wrong with a batch of tool definitions ("" when nothing is)
BatchDefect(batch) ==
    IF TotalLength(batch, 1) > AI_API_REQ_JSON_DOC_SIZE \div 2 THEN "oversized"
    ELSE IF \E i \in 1..Len(batch) : ~batch[i].json THEN "not JSON"
    ELSE IF \E i \in 1..Len(batch) : ~SimpleForm(batch[i]) /\ ~WrappedForm(batch[i])
    THEN "incomplete"
    ELSE ""

\* ESP32_AI_Connect::setTCTools: a batch that fails a check changes only
\* _lastError; a valid batch replaces the stored tools.  The method
\* returns true exactly when it leaves _lastError empty.
SetTCTools(batch) ==
    LET bad == ValidateTools(batch)
    IN  /\ Quiet
        /\ lastError' = bad
        /\ tcToolsArray' = IF bad = NoError THEN batch ELSE tcToolsArray
        /\ tcToolsArraySize' = IF bad = NoError THEN Len(batch) ELSE tcToolsArraySize
        /\ tcLog' = [Logged("setTCTools", NoInput, EmptyString, FALSE, tcLog.turn, NoGot)
                        EXCEPT !.defect = BatchDefect(batch)]
        /\ UNCHANGED <<platformHandler, streamVars, threadVars, pure, lastUserMessage,
                       lastAssistantToolCallsJson, lastMessageWasToolCalls, lastFinishReason,
                       lastTotalTokens, rawVars>>

\* ESP32_AI_Connect::tcChatReset
TcChatReset ==
    /\ Quiet
    /\ lastUserMessage' = ""
    /\ lastAssistantToolCallsJson' = EmptyString
    /\ lastMessageWasToolCalls' = FALSE
    /\ tcRawResponse' = ""
    /\ tcChatResponseCode' = 0
    /\ tcReplyResponseCode' = 0
    /\ tcLog' = Logged("tcChatReset", NoInput, EmptyString, FALSE, "reset", NoGot)
    /\ UNCHANGED <<platformHandler, lastError, streamVars, threadVars, toolVars, pure,
                   lastFinishReason, lastTotalTokens, chatRawResponse, chatResponseCode>>

\* the outcome of a chat / tcChat / tcReply: the String returned,
\* _lastError, the flag, the stored assistant turn, the handler's finish
\* reason and token count, and whether the request was POSTed
Outcome(result, err, flag, json, fin, posted) ==
    [result |-> result, err |-> err, flag |-> flag, json |-> json, fin |-> fin,
     posted |-> posted]

\* the part of tcChat and tcReply after "if (httpCode == HTTP_CODE_OK)":
\* parse, default error, bookkeeping of the turn.  emptyMsg is the error
\* set when the parser returns "" without an error; flag and json are the
\* fields as they are before the parse.
AfterParse(h, r, emptyMsg, flag, json) ==
    LET p == parseToolCallsResponseBody(h, r)
    IN  IF isEmpty(p.content) /\ p.errorMsg = NoError
        THEN Outcome(p.content, emptyMsg, flag, json, p.fin, TRUE)
        ELSE IF IsToolCallFinish(p.fin)
        THEN Outcome(p.content, p.errorMsg, TRUE, p.content, p.fin, TRUE)
        ELSE Outcome(p.content, p.errorMsg, FALSE, json, p.fin, TRUE)

\* What the environment of one request is: whether the body builds (only
\* the Claude builders can fail), how the HTTP exchange ends and, for a 200,
\* the body.
NoResponse == Response(FALSE, FALSE, FALSE, FALSE, "", FALSE, <<>>, FALSE, "")
Exchange(built, outcome, r) == [built |-> built, outcome |-> outcome, r |-> r]
NoExchange == Exchange(TRUE, "beginFailed", NoResponse)

WireResponses(h) == { r \in Responses(h) : WellFormed(h, r) }

Exchanges(h) ==
    { Exchange(TRUE, o, NoResponse) : o \in HttpOutcomes \ {"ok"} }
    \cup { Exchange(TRUE, "ok", r) : r \in WireResponses(h) }
    \cup (IF h = "claude" THEN {Exchange(FALSE, "beginFailed", NoResponse)} ELSE {})

\* what _httpClient.POST returns
HttpStatus(outcome) ==
    CASE outcome = "requestFailed" -> -1
      [] outcome = "httpError" -> 401
      [] outcome = "ok" -> HTTP_CODE_OK
      [] OTHER -> 0

\* what _httpClient.getString() returns, as the kind of payload
Payload(outcome) ==
    CASE outcome = "httpError" -> ErrorEnvelope
      [] outcome = "ok" -> "body"
      [] OTHER -> ""

\* _lastError of a request that did not end with a 200
TransportError(outcome) ==
    CASE outcome = "beginFailed" -> ErrBeginFailed
      [] outcome = "requestFailed" -> ErrRequestFailed
      [] OTHER -> HttpError(HttpStatus(outcome), Payload(outcome))

\* ResponseCode with the code of the earlier call left in place when this
\* call does not reach the POST
ResponseCode_NotReset(old, begun, outcome) ==
    IF begun THEN HttpStatus(outcome) ELSE old

\* the response code field of an operation when it returns: reset to 0 on
\* entry, set to httpCode after the POST
ResponseCode(old, begun, outcome) ==
    IF begun THEN HttpStatus(outcome) ELSE 0

\* the raw response field of an operation when it returns: cleared on
\* entry, set to the payload "if (httpCode > 0)"
RawResponse(old, begun, outcome) ==
    IF begun /\ HttpStatus(outcome) > 0 THEN Payload(outcome) ELSE ""

\* what the transport gave a call that did (begun) or did not reach the POST
Got(begun, x) ==
    IF ~begun THEN NoGot
    ELSE [code |-> HttpStatus(x.outcome), payload |-> Payload(x.outcome),
          fin |-> IF x.outcome = "ok" THEN x.r.fin ELSE "",
          tokens |-> IF x.outcome = "ok" THEN x.r.tokens ELSE 0,
          apiErr |-> x.outcome = "ok" /\ x.r.json /\ x.r.apiErr]

\* the handler's finish reason / token count once a tool-call request body
\* was built: the Claude builders call resetState(), the others leave them
FinAfterBuild(h, fin) == IF h = "claude" THEN "" ELSE fin
TokensAfterBuild(h, tokens) == IF h = "claude" THEN 0 ELSE tokens

\* ESP32_AI_Connect::tcChat
TcChat(msg, x) ==
    LET h == platformHandler
        early == IF h = "none" THEN ErrTcNoHandler
                 ELSE IF tcToolsArraySize = 0 THEN ErrToolsNotSet
                 ELSE NoError
        begun == early = NoError /\ x.built /\ x.outcome # "beginFailed"
        parsed == begun /\ x.outcome = "ok"
        out == IF early # NoError
               THEN Outcome(EmptyString, early, lastMessageWasToolCalls,
                            lastAssistantToolCallsJson, lastFinishReason, FALSE)
               ELSE IF ~x.built
               THEN Outcome(EmptyString, ErrBuildTc, FALSE, EmptyString,
                            FinAfterBuild(h, lastFinishReason), FALSE)
               ELSE IF x.outcome # "ok"
               THEN Outcome(EmptyString, TransportError(x.outcome), FALSE, EmptyString,
                            FinAfterBuild(h, lastFinishReason), x.outcome # "beginFailed")
               ELSE AfterParse(h, x.r, ErrParseTc, FALSE, EmptyString)
    IN
    \E o \in {out} :
    /\ Quiet
    /\ early # NoError => x = NoExchange
    /\ lastUserMessage' = IF early = NoError THEN msg ELSE lastUserMessage
    /\ lastError' = o.err
    /\ lastMessageWasToolCalls' = o.flag
    /\ lastAssistantToolCallsJson' = o.json
    /\ lastFinishReason' = o.fin
    /\ lastTotalTokens' = IF parsed THEN ToolCallsTokens(x.r)
                          ELSE IF early = NoError THEN TokensAfterBuild(h, lastTotalTokens)
                          ELSE lastTotalTokens
    /\ tcRawResponse' = RawResponse(tcRawResponse, begun, x.outcome)
    /\ tcChatResponseCode' = ResponseCode(tcChatResponseCode, begun, x.outcome)
    /\ tcLog' = Logged("tcChat", NoInput, o.result, o.posted, ChatTurn(o.result), Got(begun, x))
    /\ UNCHANGED <<platformHandler, streamVars, threadVars, toolVars, pure,
                   chatRawResponse, chatResponseCode, tcReplyResponseCode>>

\* the checks of tcReply before the request is built: the error it
\* returns with, or NoError
ReplyError(h, nTools, flag, in) ==
    IF h = "none" THEN ErrTcNoHandler
    ELSE IF nTools = 0 THEN ErrToolsNotSet
    ELSE IF ~flag THEN ErrNoToolCalls
    ELSE ValidateToolResults(in)

\* ESP32_AI_Connect::tcReply
TcReply(in, x) ==
    LET h == platformHandler
        early == ReplyError(h, tcToolsArraySize, lastMessageWasToolCalls, in)
        sent == /\ early = NoError
                /\ x.built
                /\ FollowUpBuilds(h, lastAssistantToolCallsJson)
        begun == sent /\ x.outcome # "beginFailed"
        parsed == begun /\ x.outcome = "ok"
        out == IF early # NoError
             THEN Outcome(EmptyString, early, lastMessageWasToolCalls,
                          lastAssistantToolCallsJson, lastFinishReason, FALSE)
             ELSE IF ~sent
             THEN Outcome(EmptyString, ErrBuildFollowUp, lastMessageWasToolCalls,
                          lastAssistantToolCallsJson, FinAfterBuild(h, lastFinishReason), FALSE)
             ELSE IF x.outcome # "ok"
             THEN Outcome(EmptyString, TransportError(x.outcome), lastMessageWasToolCalls,
                          lastAssistantToolCallsJson, FinAfterBuild(h, lastFinishReason),
                          x.outcome # "beginFailed")
             ELSE AfterParse(h, x.r, ErrParseFollowUp,
                             lastMessageWasToolCalls, lastAssistantToolCallsJson)
    IN
    \E o \in {out} :
    /\ Quiet
    /\ early # NoError => x = NoExchange
    /\ lastError' = o.err
    /\ lastMessageWasToolCalls' = o.flag
    /\ lastAssistantToolCallsJson' = o.json
    /\ lastFinishReason' = o.fin
    /\ lastTotalTokens' = IF parsed THEN ToolCallsTokens(x.r)
                          ELSE IF early = NoError THEN TokensAfterBuild(h, lastTotalTokens)
                          ELSE lastTotalTokens
    /\ tcRawResponse' = RawResponse(tcRawResponse, begun, x.outcome)
    /\ tcReplyResponseCode' = ResponseCode(tcReplyResponseCode, begun, x.outcome)
    /\ UNCHANGED lastUserMessage
    /\ tcLog' = Logged("tcReply", in, o.result, o.posted, ReplyTurn(o.result, tcLog.turn),
                       Got(begun, x))
    /\ UNCHANGED <<platformHandler, streamVars, threadVars, toolVars, pure,
                   chatRawResponse, chatResponseCode, tcChatResponseCode>>

\* ------------------------------------------------------------------ chat
\* AI_API_OpenAI_Handler::parseResponseBody
OpenAI_parseResponseBody(r) ==
    IF ~r.json THEN Parsed(EmptyString, ErrJson, "")
    ELSE IF r.apiErr THEN Parsed(EmptyString, ApiError(ErrApi), "")
    ELSE IF r.outer /\ r.inner /\ r.hasText THEN Parsed(TextString(r.text), "", r.fin)
    ELSE Parsed(EmptyString, ErrNoContent, IF r.outer THEN r.fin ELSE "")

\* AI_API_Claude_Handler::parseResponseBody
Claude_parseResponseBody(r) ==
    IF ~r.json THEN Parsed(EmptyString, ErrJson, "")
    ELSE IF r.apiErr THEN Parsed(EmptyString, ApiError(ErrClaudeApi), "")
    ELSE IF r.outer THEN Parsed(TextString(r.text), "", r.fin)
    ELSE Parsed(EmptyString, ErrNoValidContent, "")

\* AI_API_Gemini_Handler::parseResponseBody
Gemini_parseResponseBody(r) ==
    IF ~r.json THEN Parsed(EmptyString, ErrJson, "")
    ELSE IF r.apiErr THEN Parsed(EmptyString, ApiError(ErrApi), "")
    ELSE IF ~r.outer THEN Parsed(EmptyString, ErrGeminiFormat, "")
    ELSE IF r.fin \notin {"", "STOP", "MAX_TOKENS"} THEN Parsed(EmptyString, ErrGeminiStopped, r.fin)
    ELSE IF ~r.inner THEN Parsed(EmptyString, ErrGeminiNoParts, r.fin)
    ELSE IF ~r.hasText THEN Parsed(EmptyString, ErrGeminiNoText, r.fin)
    ELSE Parsed(TextString(r.text), "", r.fin)

\* _platformHandler->parseResponseBody (virtual dispatch)
parseResponseBody(h, r) ==
    IF h = "openai" THEN OpenAI_parseResponseBody(r)
    ELSE IF h = "claude" THEN Claude_parseResponseBody(r)
    ELSE Gemini_parseResponseBody(r)

\* _lastTotalTokens after a parseResponseBody: reset, then read from the
\* usage member (the Claude parser reads it only once it has found content)
ChatTokens(h, r) ==
    IF ~r.json \/ r.apiErr THEN 0
    ELSE IF h = "claude" /\ ~r.outer THEN 0
    ELSE r.tokens

\* ESP32_AI_Connect::chat
Chat(x) ==
    LET h == platformHandler
        early == IF h = "none" THEN ErrTcNoHandler ELSE NoError
        begun == early = NoError /\ x.built /\ x.outcome # "beginFailed"
        parsed == begun /\ x.outcome = "ok"
        p == parseResponseBody(h, x.r)
        out == IF early # NoError
               THEN Outcome(EmptyString, early, FALSE, EmptyString, lastFinishReason, FALSE)
               ELSE IF ~x.built
               THEN Outcome(EmptyString, ErrBuildChat, FALSE, EmptyString, lastFinishReason, FALSE)
               ELSE IF x.outcome # "ok"
               THEN Outcome(EmptyString, TransportError(x.outcome), FALSE, EmptyString,
                            lastFinishReason, x.outcome # "beginFailed")
               ELSE IF isEmpty(p.content) /\ p.errorMsg = NoError
               THEN Outcome(p.content, ErrParseChat, FALSE, EmptyString, p.fin, TRUE)
               ELSE Outcome(p.content, p.errorMsg, FALSE, EmptyString, p.fin, TRUE)
    IN
    \E o \in {out} :
    /\ Quiet
    /\ early # NoError => x = NoExchange
    /\ lastError' = o.err
    /\ lastFinishReason' = o.fin
    /\ lastTotalTokens' = IF parsed THEN ChatTokens(h, x.r) ELSE lastTotalTokens
    /\ chatRawResponse' = RawResponse(chatRawResponse, begun, x.outcome)
    /\ chatResponseCode' = ResponseCode(chatResponseCode, begun, x.outcome)
    /\ tcLog' = Logged("chat", NoInput, o.result, o.posted, tcLog.turn, Got(begun, x))
    /\ UNCHANGED <<platformHandler, streamVars, threadVars, toolVars, pure, lastUserMessage,
                   lastAssistantToolCallsJson, lastMessageWasToolCalls, tcRawResponse,
                   tcChatResponseCode, tcReplyResponseCode>>

\* ESP32_AI_Connect::chatReset
ChatReset ==
    /\ Quiet
    /\ chatRawResponse' = ""
    /\ chatResponseCode' = 0
    /\ tcLog' = Logged("chatReset", NoInput, EmptyString, FALSE, tcLog.turn, NoGot)
    /\ UNCHANGED <<platformHandler, lastError, streamVars, threadVars, toolVars, pure,
                   lastUserMessage, lastAssistantToolCallsJson, lastMessageWasToolCalls,
                   lastFinishReason, lastTotalTokens, tcRawResponse, tcChatResponseCode,
                   tcReplyResponseCode>>


UserMessages == {"q1"}
MaxTools == 1           \* tools in one setTCTools batch

NextTC ==
    \/ \E p \in Platforms : Begin(p)
    \/ \E batch \in Batches(RoundTripTools, MaxTools) : SetTCTools(batch)
    \/ TcChatReset
    \/ \E msg \in UserMessages :
          \E x \in (IF platformHandler = "none" \/ tcToolsArraySize = 0
                    THEN {NoExchange} ELSE Exchanges(platformHandler)) :
             TcChat(msg, x)
    \/ \E in \in ToolResultsInputs :
          \E x \in (IF ReplyError(platformHandler, tcToolsArraySize,
                                  lastMessageWasToolCalls, in) # NoError
                    THEN {NoExchange} ELSE Exchanges(platformHandler)) :
             TcReply(in, x)

SpecStream == Init /\ [][NextStream]_vars
SpecTC == Init /\ [][NextTC]_vars

\* ---------------------------------------------- the calls of one client
\* chat, tcChat and tcReply with begin, setTCTools and the resets between
\* them: the fields each call leaves behind.  A streamChat call is made on
\* a client without a handler only, where it fails at its start checks.

\* the bodies of a 200 answer: not JSON; an error member; a text without
\* finish reason and usage; a text and a tool-call array with the vendor's
\* finish reason and a usage member
CallResponses(h) ==
    LET text == IF h = "openai" THEN "stop" ELSE IF h = "claude" THEN "end_turn" ELSE "STOP"
        calls == IF h = "openai" THEN "tool_calls" ELSE IF h = "claude" THEN "tool_use" ELSE "STOP"
    IN  { Response(FALSE, FALSE, FALSE, FALSE, "", FALSE, <<>>, FALSE, ""),
          WithUsage(Response(TRUE, TRUE, FALSE, FALSE, "", FALSE, <<>>, FALSE, ""), 5),
          Response(TRUE, FALSE, TRUE, TRUE, "", FALSE, <<>>, TRUE, "hello"),
          WithUsage(Response(TRUE, FALSE, TRUE, TRUE, text, FALSE, <<>>, TRUE, "hello"), 7),
          WithUsage(Response(TRUE, FALSE, TRUE, TRUE, calls, TRUE, <<"call_1">>, FALSE, ""), 9) }

CallExchanges(h) ==
    { Exchange(TRUE, o, NoResponse) : o \in HttpOutcomes \ {"ok"} }
    \cup { Exchange(TRUE, "ok", r) : r \in CallResponses(h) }
    \cup (IF h = "claude" THEN {Exchange(FALSE, "beginFailed", NoResponse)} ELSE {})

CallReplies ==
    { ToolResults(100, TRUE, TRUE, <<GoodResult("call_1")>>),
      ToolResults(100, TRUE, TRUE, <<NoOutputResult>>) }

NextCalls ==
    \/ \E p \in Platforms : Begin(p)
    \/ \E batch \in Batches(RoundTripTools, MaxTools) : SetTCTools(batch)
    \/ ChatReset
    \/ TcChatReset
    \/ \E t \in Threads : Quiet /\ platformHandler = "none" /\ StreamChatQuickCheck(t)
    \/ \E t \in Threads : StreamChatLocked(t)
    \/ \E t \in Threads : Quiet /\ StreamChatReset(t)
    \/ \E t \in Threads : Resume(t)
    \/ \E x \in (IF platformHandler = "none"
                 THEN {NoExchange} ELSE CallExchanges(platformHandler)) :
          Chat(x)
    \/ \E msg \in UserMessages :
          \E x \in (IF platformHandler = "none" \/ tcToolsArraySize = 0
                    THEN {NoExchange} ELSE CallExchanges(platformHandler)) :
             TcChat(msg, x)
    \/ \E in \in CallReplies :
          \E x \in (IF ReplyError(platformHandler, tcToolsArraySize,
                                  lastMessageWasToolCalls, in) # NoError
                    THEN {NoExchange} ELSE CallExchanges(platformHandler)) :
             TcReply(in, x)

SpecCalls == Init /\ [][NextCalls]_vars

\* ------------------------------------------------- tool registration
\* setTCTools with batches of every kind of tool definition, on a client
\* that is re-initialised and reset between the calls.
MaxBatch == 2           \* tools in one setTCTools batch

NextTools ==
    \/ \E p \in Platforms : Begin(p)
    \/ \E batch \in Batches(ValidTools \cup InvalidTools \cup {OversizedTool}, MaxBatch) :
          SetTCTools(batch)
    \/ TcChatReset

SpecTools == Init /\ [][NextTools]_vars

\* ------------------------------------------------ request bodies (handlers)
\* A JSON value, as far as the builders and the properties tell values
\* apart: its kind, its text and, for a number, its value.
Json(kind, text, num) == [kind |-> kind, text |-> text, num |-> num]

Absent == Json("absent", "", 0)              \* no such member
JsonString(s) == Json("string", s, 0)
JsonNumber(n) == Json("number", "", n)
JsonTrue == Json("bool", "true", 0)
JsonContainer == Json("container", "", 0)    \* an object or array the builder created
Custom(k) == Json("custom", k, 0)            \* the value customParams has under key k

\* String::toUpperCase on the words the builders apply it to
toUpperCase(s) ==
    CASE s = "object" -> "OBJECT"
      [] s = "string" -> "STRING"
      [] s = "integer" -> "INTEGER"
      [] s = "number" -> "NUMBER"
      [] s = "required" -> "REQUIRED"
      [] s = "any" -> "ANY"
      [] OTHER -> s

\* The members of a request document the builders write, by path.
DocFields ==
    {"model", "stream", "temperature", "max_completion_tokens", "max_tokens", "top_p", "top_k",
     "system", "messages", "messages.system", "messages.user",
     "systemInstruction", "contents", "safetySettings",
     "generationConfig", "generationConfig.temperature", "generationConfig.maxOutputTokens",
     "generationConfig.topP",
     "tool_choice", "tool_choice.type", "tool_config.function_calling_config.mode"}

\* the members below a member
SubFields(k) ==
    CASE k = "messages" -> {"messages.system", "messages.user"}
      [] k = "generationConfig" -> {"generationConfig.temperature",
                                    "generationConfig.maxOutputTokens", "generationConfig.topP"}
      [] k = "tool_choice" -> {"tool_choice.type"}
      [] OTHER -> {}

\* doc.clear()
EmptyDoc == [f \in DocFields |-> Absent]

\* doc[k] = v: the member is replaced with everything below it
Assign(doc, k, v) ==
    [f \in DocFields |-> IF f = k THEN v ELSE IF f \in SubFields(k) THEN Absent ELSE doc[f]]

\* object[k] = v for a member below an object that exists
Put(doc, f, v) == [doc EXCEPT ![f] = v]

\* doc[param.key()] = param.value(): the value of "generationConfig" in
\* customParams is an object with a temperature member, every other value
\* is a scalar
CustomAssign(doc, k) ==
    IF k = "generationConfig"
    THEN Put(Assign(doc, k, Custom(k)), "generationConfig.temperature",
             Custom("generationConfig.temperature"))
    ELSE Assign(doc, k, Custom(k))

\* the loop over customParams of the OpenAI and Claude builders: every key
\* that is not skipped is copied to the document
RECURSIVE ApplyCustom(_, _, _, _)
ApplyCustom(doc, custom, i, skipped) ==
    IF i > Len(custom) THEN doc
    ELSE ApplyCustom(IF custom[i] \in skipped THEN doc ELSE CustomAssign(doc, custom[i]),
                     custom, i + 1, skipped)

\* SkippedKeys that lets customParams write the model and the messages
OpenAI_SkippedKeys_None(stream) == {}

\* the keys of customParams the OpenAI builders skip
OpenAI_SkippedKeys(stream) ==
    {"model", "messages"} \cup (IF stream THEN {"stream"} ELSE {})

\* the keys of customParams the Claude builders skip
Claude_SkippedKeys(stream) ==
    {"model", "messages", "system"} \cup (IF stream THEN {"stream"} ELSE {})

\* the keys of customParams the Gemini builders skip at the root
Gemini_SkippedKeys(stream) ==
    {"model", "contents", "systemInstruction"} \cup (IF stream THEN {"stream"} ELSE {})

\* the keys of customParams the Gemini builders put into generationConfig
\* (of the seventeen the code lists, the ones customParams is drawn from)
Gemini_GenerationKeys == {"temperature", "topP", "maxOutputTokens"}

\* the configuration a chat or stream request is built from: temperature in
\* tenths (-10 is the unset -1.0), maxTokens (-1 unset), customParams as
\* the sequence of its keys, doc the content of the request document
\* before the call
ChatConfig(h, stream, systemRole, temperature, maxTokens, custom, doc) ==
    [h |-> h, stream |-> stream, model |-> "model-1", systemRole |-> systemRole,
     temperature |-> temperature, maxTokens |-> maxTokens, userMessage |-> "hi",
     custom |-> custom, doc |-> doc]

\* AI_API_OpenAI_Handler::buildRequestBody / buildStreamRequestBody
OpenAI_buildRequestBody(c) ==
    LET d1 == Assign(EmptyDoc, "model", JsonString(c.model))
        d2 == IF c.stream THEN Assign(d1, "stream", JsonTrue) ELSE d1
        d3 == Put(Put(Assign(d2, "messages", JsonContainer),
                      "messages.system",
                      IF c.systemRole # "" THEN JsonString(c.systemRole) ELSE Absent),
                  "messages.user", JsonString(c.userMessage))
        d4 == ApplyCustom(d3, c.custom, 1, OpenAI_SkippedKeys(c.stream))
        d5 == IF c.temperature >= 0 THEN Assign(d4, "temperature", JsonNumber(c.temperature))
              ELSE d4
    IN  IF c.maxTokens > 0 THEN Assign(d5, "max_completion_tokens", JsonNumber(c.maxTokens))
        ELSE d5

\* max_tokens of a Claude request without the default
Claude_MaxTokens_NoDefault(maxTokens) == maxTokens

\* "(maxTokens > 0) ? maxTokens : 1024"
Claude_MaxTokens(maxTokens) == IF maxTokens > 0 THEN maxTokens ELSE 1024

\* AI_API_Claude_Handler::buildRequestBody / buildStreamRequestBody: the
\* document is not cleared
Claude_buildRequestBody(c) ==
    LET d1 == Assign(c.doc, "model", JsonString(c.model))
        d2 == IF c.stream THEN Assign(d1, "stream", JsonTrue) ELSE d1
        d3 == ApplyCustom(d2, c.custom, 1, Claude_SkippedKeys(c.stream))
        d4 == IF c.temperature >= 0 THEN Assign(d3, "temperature", JsonNumber(c.temperature))
              ELSE d3
        d5 == Assign(d4, "max_tokens", JsonNumber(Claude_MaxTokens(c.maxTokens)))
        d6 == IF c.systemRole # "" THEN Assign(d5, "system", JsonString(c.systemRole)) ELSE d5
    IN  Put(Assign(d6, "messages", JsonContainer), "messages.user", JsonString(c.userMessage))

\* the loop over customParams of the Gemini builders; has is
\* hasGenerationConfig
RECURSIVE Gemini_ApplyCustom(_, _, _, _, _)
Gemini_ApplyCustom(doc, has, custom, i, stream) ==
    IF i > Len(custom) THEN doc
    ELSE IF custom[i] \in Gemini_GenerationKeys
    THEN LET d == IF has THEN doc ELSE Assign(doc, "generationConfig", JsonContainer)
             f == IF custom[i] = "temperature" THEN "generationConfig.temperature"
                  ELSE IF custom[i] = "topP" THEN "generationConfig.topP"
                  ELSE "generationConfig.maxOutputTokens"
         IN  Gemini_ApplyCustom(Put(d, f, Custom(custom[i])), TRUE, custom, i + 1, stream)
    ELSE IF custom[i] \in Gemini_SkippedKeys(stream)
    THEN Gemini_ApplyCustom(doc, has, custom, i + 1, stream)
    ELSE Gemini_ApplyCustom(CustomAssign(doc, custom[i]), has, custom, i + 1, stream)

\* AI_API_Gemini_Handler::buildRequestBody / buildStreamRequestBody
Gemini_buildRequestBody(c) ==
    LET d1 == IF c.systemRole # ""
              THEN Assign(EmptyDoc, "systemInstruction", JsonString(c.systemRole))
              ELSE EmptyDoc
        d2 == Assign(d1, "contents", JsonString(c.userMessage))
        d3 == Gemini_ApplyCustom(d2, FALSE, c.custom, 1, c.stream)
        had == d3["generationConfig"] # Absent
        d4 == IF had THEN d3 ELSE Assign(d3, "generationConfig", JsonContainer)
        d5 == IF c.temperature >= 0
              THEN Put(d4, "generationConfig.temperature", JsonNumber(c.temperature))
              ELSE d4
        d6 == IF c.maxTokens > 0
              THEN Put(d5, "generationConfig.maxOutputTokens", JsonNumber(c.maxTokens))
              ELSE d5
        configAdded == had \/ c.temperature >= 0 \/ c.maxTokens > 0
    IN  IF configAdded THEN d6 ELSE Assign(d6, "generationConfig", Absent)

\* _platformHandler->buildRequestBody / buildStreamRequestBody
buildRequestBody(c) ==
    IF c.h = "openai" THEN OpenAI_buildRequestBody(c)
    ELSE IF c.h = "claude" THEN Claude_buildRequestBody(c)
    ELSE Gemini_buildRequestBody(c)

\* the keys customParams is drawn from, per vendor
CustomKeys(h) ==
    IF h = "openai"
    THEN {"temperature", "max_completion_tokens", "model", "messages", "stream", "top_p"}
    ELSE IF h = "claude"
    THEN {"temperature", "max_tokens", "model", "messages", "system", "stream", "top_k"}
    ELSE {"temperature", "maxOutputTokens", "topP", "model", "contents", "systemInstruction",
          "stream", "generationConfig", "safetySettings"}

MaxCustom == 2          \* keys in customParams

\* customParams: at most MaxCustom different keys, in the order of the object
CustomParams(h) ==
    { s \in UNION { [1..n -> CustomKeys(h)] : n \in 0..MaxCustom } :
        \A i, j \in 1..Len(s) : i # j => s[i] # s[j] }

\* what an earlier Claude request left in the request document
StaleDoc ==
    Claude_buildRequestBody(
        ChatConfig("claude", TRUE, "old role", 3, 64, <<"top_k">>, EmptyDoc))

Vendors == Platforms \ {"none"}


\* ------------------------------------------- tool-call request bodies
\* a tool choice that is a JSON object naming a function, and one that
\* starts like an object and does not parse
ForceFunction == "{\"type\":\"function\",\"function\":{\"name\":\"get_weather\"}}"
BadObjectChoice == "{type:"

ToolChoices == {"", "auto", "none", "required", "any", " any ", ForceFunction, BadObjectChoice}

\* String::trim
trim(s) == IF s = " any " THEN "any" ELSE s

\* String::startsWith("{") and whether deserializeJson accepts the choice
startsWithBrace(s) == s \in {ForceFunction, BadObjectChoice}
parsesAsJson(s) == s = ForceFunction

\* String::equalsIgnoreCase
equalsIgnoreCase(a, b) == toUpperCase(a) = toUpperCase(b)

\* what a tool-call request or a follow-up request is built from; the
\* follow-up members are those of tcReply (assistantParses: the stored
\* assistant turn parses as JSON)
ToolConfig(h, followUp, maxTokens, toolChoice, followUpMaxTokens, followUpToolChoice,
           assistantParses) ==
    [h |-> h, followUp |-> followUp, model |-> "model-1", maxTokens |-> maxTokens,
     toolChoice |-> toolChoice, followUpMaxTokens |-> followUpMaxTokens,
     followUpToolChoice |-> followUpToolChoice, assistantParses |-> assistantParses]

\* what a builder returns: no body (the empty String) or the document
Body(doc) == [built |-> TRUE, doc |-> doc]
NoBody == [built |-> FALSE, doc |-> EmptyDoc]

\* the tool_choice part of the OpenAI builders
OpenAI_ToolChoice(doc, choice) ==
    IF choice = "" THEN doc
    ELSE IF trim(choice) \in {"auto", "none", "required"}
    THEN Assign(doc, "tool_choice", JsonString(trim(choice)))
    ELSE IF startsWithBrace(trim(choice)) /\ parsesAsJson(trim(choice))
    THEN Put(Assign(doc, "tool_choice", Json("object", trim(choice), 0)),
             "tool_choice.type", JsonString("function"))
    ELSE Assign(doc, "tool_choice", JsonString(trim(choice)))

\* the tool_choice part of the Claude builders
Claude_ToolChoice(doc, choice) ==
    IF choice = "" THEN doc
    ELSE IF trim(choice) \in {"auto", "any", "none"}
    THEN Put(Assign(doc, "tool_choice", JsonContainer),
             "tool_choice.type", JsonString(trim(choice)))
    ELSE IF startsWithBrace(trim(choice)) /\ parsesAsJson(trim(choice))
    THEN Put(Assign(doc, "tool_choice", Json("object", trim(choice), 0)),
             "tool_choice.type", JsonString("function"))
    ELSE Put(Assign(doc, "tool_choice", JsonContainer),
             "tool_choice.type", JsonString(trim(choice)))

\* the tool choice part of the Gemini builders for one choice string
Gemini_ToolChoice(doc, choice) ==
    LET mode == "tool_config.function_calling_config.mode"
    IN  IF startsWithBrace(trim(choice))
        THEN IF parsesAsJson(trim(choice)) THEN Put(doc, mode, JsonString("ANY")) ELSE doc
        ELSE IF equalsIgnoreCase(trim(choice), "auto") THEN Put(doc, mode, JsonString("AUTO"))
        ELSE IF equalsIgnoreCase(trim(choice), "none") THEN Put(doc, mode, JsonString("NONE"))
        ELSE IF \/ equalsIgnoreCase(trim(choice), "required")
                \/ equalsIgnoreCase(trim(choice), "any")
        THEN Put(doc, mode, JsonString(toUpperCase(trim(choice))))
        ELSE doc

\* AI_API_OpenAI_Handler::buildToolCallsRequestBody, without the tools
OpenAI_buildToolCallsRequestBody(c) ==
    LET d1 == Assign(EmptyDoc, "model", JsonString(c.model))
        d2 == IF c.maxTokens > 0
              THEN Assign(d1, "max_completion_tokens", JsonNumber(c.maxTokens)) ELSE d1
        d3 == Put(Assign(d2, "messages", JsonContainer), "messages.user", JsonString("hi"))
    IN  Body(OpenAI_ToolChoice(d3, c.toolChoice))

\* AI_API_OpenAI_Handler::buildToolCallsFollowUpRequestBody, without the tools
OpenAI_buildToolCallsFollowUpRequestBody(c) ==
    LET d1 == Assign(EmptyDoc, "model", JsonString(c.model))
        d2 == IF c.followUpMaxTokens > 0
              THEN Assign(d1, "max_completion_tokens", JsonNumber(c.followUpMaxTokens)) ELSE d1
        d3 == Put(Assign(d2, "messages", JsonContainer), "messages.user", JsonString("hi"))
    IN  Body(OpenAI_ToolChoice(d3, c.followUpToolChoice))

\* AI_API_Claude_Handler::buildToolCallsRequestBody, without the tools
\* (the stored tools parse, so the builder does not return on a tool)
Claude_buildToolCallsRequestBody(c) ==
    LET d1 == Assign(EmptyDoc, "model", JsonString(c.model))
        d2 == Assign(d1, "max_tokens", JsonNumber(Claude_MaxTokens(c.maxTokens)))
        d3 == Put(Assign(d2, "messages", JsonContainer), "messages.user", JsonString("hi"))
    IN  Body(Claude_ToolChoice(d3, c.toolChoice))

\* AI_API_Claude_Handler::buildToolCallsFollowUpRequestBody, without the tools
Claude_buildToolCallsFollowUpRequestBody(c) ==
    LET d1 == Assign(EmptyDoc, "model", JsonString(c.model))
        d2 == Assign(d1, "max_tokens", JsonNumber(Claude_MaxTokens(c.followUpMaxTokens)))
        d3 == Put(Assign(d2, "messages", JsonContainer), "messages.user", JsonString("hi"))
    IN  IF ~c.assistantParses THEN NoBody
        ELSE Body(Claude_ToolChoice(d3, c.followUpToolChoice))

\* AI_API_Gemini_Handler::buildToolCallsRequestBody, without the tools
Gemini_buildToolCallsRequestBody(c) ==
    LET d1 == IF c.maxTokens > 0
              THEN Put(Assign(EmptyDoc, "generationConfig", JsonContainer),
                       "generationConfig.maxOutputTokens", JsonNumber(c.maxTokens))
              ELSE EmptyDoc
        d2 == Assign(d1, "contents", JsonString("hi"))
    IN  Body(IF c.toolChoice # "" THEN Gemini_ToolChoice(d2, c.toolChoice) ELSE d2)

\* AI_API_Gemini_Handler::buildToolCallsFollowUpRequestBody, without the
\* tools: the choice of the first request is used when the follow-up has none
Gemini_buildToolCallsFollowUpRequestBody(c) ==
    LET d1 == IF c.followUpMaxTokens > 0
              THEN Put(Assign(EmptyDoc, "generationConfig", JsonContainer),
                       "generationConfig.maxOutputTokens", JsonNumber(c.followUpMaxTokens))
              ELSE EmptyDoc
        d2 == Assign(d1, "contents", JsonString("hi"))
    IN  Body(IF c.followUpToolChoice # "" THEN Gemini_ToolChoice(d2, c.followUpToolChoice)
             ELSE IF c.toolChoice # "" THEN Gemini_ToolChoice(d2, c.toolChoice)
             ELSE d2)

\* _platformHandler->buildToolCallsRequestBody / buildToolCallsFollowUpRequestBody
buildToolCallsRequestBody(c) ==
    IF c.h = "openai" THEN OpenAI_buildToolCallsRequestBody(c)
    ELSE IF c.h = "claude" THEN Claude_buildToolCallsRequestBody(c)
    ELSE Gemini_buildToolCallsRequestBody(c)

buildToolCallsFollowUpRequestBody(c) ==
    IF c.h = "openai" THEN OpenAI_buildToolCallsFollowUpRequestBody(c)
    ELSE IF c.h = "claude" THEN Claude_buildToolCallsFollowUpRequestBody(c)
    ELSE Gemini_buildToolCallsFollowUpRequestBody(c)

\* --------------------------------------------- tool-call array elements
\* One tool invocation as the vendor's response carries it: an element of
\* message.tool_calls (OpenAI), a tool_use content block (Claude: id, name,
\* input), a functionCall part (Gemini: name, args). Members the vendor's
\* format does not have are Absent.
VendorCall(id, type, name, arguments, input) ==
    [id |-> id, type |-> type, name |-> name, arguments |-> arguments, input |-> input]

ArgsText == "{\"city\":\"Paris\"}"
JsonObject(text) == Json("object", text, 0)

\* serializeJson of an object: the String of its text
serializeJson(v) == JsonString(v.text)

\* an element of the array the parsers return
ToolCall(id, type, name, arguments) ==
    [id |-> id, type |-> type, name |-> name, arguments |-> arguments]

\* OpenAI: message.tool_calls is serialised as it came
OpenAI_ToolCall(b) == ToolCall(b.id, b.type, b.name, b.arguments)

\* Claude: id and name of the block, type "function", the input serialised
Claude_ToolCall(b) ==
    ToolCall(b.id, JsonString("function"), b.name,
             IF b.input.kind = "object" THEN serializeJson(b.input) ELSE JsonString("{}"))

\* Gemini: type "function"; function.name and function.arguments when the
\* functionCall has a name, the arguments when it has args
Gemini_ToolCall(b) ==
    ToolCall(Absent, JsonString("function"),
             IF b.name # Absent THEN JsonString(b.name.text) ELSE Absent,
             IF b.name # Absent /\ b.input # Absent THEN serializeJson(b.input) ELSE Absent)

\* the array parseToolCallsResponseBody returns for the invocations of a
\* response
ToolCallsArray(h, blocks) ==
    [i \in 1..Len(blocks) |->
        IF h = "openai" THEN OpenAI_ToolCall(blocks[i])
        ELSE IF h = "claude" THEN Claude_ToolCall(blocks[i])
        ELSE Gemini_ToolCall(blocks[i])]

\* the invocations a vendor's response can carry
VendorCalls(h) ==
    IF h = "openai"
    THEN { VendorCall(JsonString(id), JsonString("function"), JsonString("get_weather"),
                      JsonString(a), Absent) : id \in {"call_1", "call_2"}, a \in {ArgsText, "{}"} }
    ELSE IF h = "claude"
    THEN { VendorCall(JsonString(id), JsonString("tool_use"), JsonString("get_weather"),
                      Absent, in) :
             id \in {"toolu_1", "toolu_2"}, in \in {JsonObject(ArgsText), JsonObject("{}"), Absent} }
    ELSE { VendorCall(Absent, Absent, name, Absent, in) :
             name \in {JsonString("get_weather"), Absent},
             in \in {JsonObject(ArgsText), JsonObject("{}"), Absent} }

MaxCalls == 2           \* tool invocations in one response

\* ------------------------------------------------- tools on the wire
\* A JSON Schema as the tool conversions read it: the type keyword, the
\* description and the enum array (Absent when the schema has none), the
\* properties as a sequence of named schemas in the order of the object
\* (empty: no properties member), and the required array.
Schema(type, description, enum, properties, required) ==
    [type |-> type, description |-> description, enum |-> enum, properties |-> properties,
     required |-> required]

Property(name, schema) == [name |-> name, schema |-> schema]

JsonArray(text) == Json("array", text, 0)

\* schemas without properties
LeafSchemas ==
    { Schema(type, description, enum, <<>>, Absent) :
        type \in {"string", "integer"},
        description \in {Absent, JsonString("a value")},
        enum \in {Absent, JsonArray("[\"C\",\"F\"]")} }

MaxDepth == 2           \* object schemas nested below one another

\* the schemas with at most depth object schemas nested: an object schema
\* has a property x of any schema one level less deep and may have a
\* second property y without properties
RECURSIVE Schemas(_)
Schemas(depth) ==
    IF depth = 0 THEN LeafSchemas
    ELSE LeafSchemas \cup
         { Schema("object", Absent, Absent, properties, required) :
             properties \in
                { <<Property("x", x)>> : x \in Schemas(depth - 1) } \cup
                { <<Property("x", x), Property("y", y)>> :
                    x \in Schemas(depth - 1),
                    y \in {Schema("string", Absent, Absent, <<>>, Absent)} },
             required \in {Absent, JsonArray("[\"x\"]")} }

\* a stored tool definition as the builders read it: the form (simple:
\* name, description, parameters at the top; wrapped: below "function",
\* next to "type"), the name, the description (Absent when the tool has
\* none) and the parameters schema
ToolForm(form, name, description, parameters) ==
    [form |-> form, name |-> name, description |-> description, parameters |-> parameters]

\* a tool of the request body: name, description, and the parameters
\* (input_schema for Claude)
WireTool(name, description, parameters) ==
    [name |-> name, description |-> description, parameters |-> parameters]

\* JsonVariant::as<String>(): the text of a string, the serialisation of
\* anything else (a missing member is null)
asString(v) == IF v = Absent THEN JsonString("null") ELSE v

\* OpenAI: the wrapped form copies name and description when they are
\* there, and the parameters; the simple form copies every member
OpenAI_Tool(t) ==
    IF t.form = "wrapped"
    THEN WireTool(IF t.name # Absent THEN asString(t.name) ELSE Absent,
                  IF t.description # Absent THEN asString(t.description) ELSE Absent,
                  t.parameters)
    ELSE WireTool(t.name, t.description, t.parameters)

\* the description of a wrapped tool in a Claude request
Claude_Description(description) == asString(description)

\* Claude: the wrapped form writes name and description whatever the
\* function has, the simple form the description only when it is there
Claude_Tool(t) ==
    IF t.form = "wrapped"
    THEN WireTool(asString(t.name), Claude_Description(t.description), t.parameters)
    ELSE WireTool(asString(t.name),
                  IF t.description # Absent THEN asString(t.description) ELSE Absent,
                  t.parameters)

\* a property of the converted schema: the type upper-cased, the
\* description and the enum; nothing else of the property is read
Gemini_ConvertProperty(p) ==
    Schema(IF p.type # "" THEN toUpperCase(p.type) ELSE "", p.description, p.enum, <<>>, Absent)

\* Gemini: parameters of type "object" are rebuilt from type, properties
\* and required; any other parameters object is copied
Gemini_ConvertParameters(parameters) ==
    IF parameters.type = "object"
    THEN Schema("OBJECT", Absent, Absent,
                [i \in 1..Len(parameters.properties) |->
                    Property(parameters.properties[i].name,
                             Gemini_ConvertProperty(parameters.properties[i].schema))],
                parameters.required)
    ELSE parameters

\* Gemini: both forms give name, description (when not empty) and the
\* converted parameters
Gemini_FunctionDeclaration(t) ==
    WireTool(asString(t.name),
             IF t.description # Absent /\ t.description.text # "" THEN asString(t.description)
             ELSE Absent,
             Gemini_ConvertParameters(t.parameters))

\* the tool a handler's buildToolCallsRequestBody writes for a stored tool
BuildTool(h, t) ==
    IF h = "openai" THEN OpenAI_Tool(t)
    ELSE IF h = "claude" THEN Claude_Tool(t)
    ELSE Gemini_FunctionDeclaration(t)

\* the same tool in the other form
OtherForm(t) == [t EXCEPT !.form = IF t.form = "simple" THEN "wrapped" ELSE "simple"]

\* ------------------------------------------------ content lines of a stream
\* the texts a content delta carries
StreamTexts == {"hi", "", "type [DONE] to finish"}

\* rawChunk.indexOf("[DONE]") != -1 for a line whose text delta is c
indexOfDone(c) == c = "type [DONE] to finish"

\* the line "data: {json}" of a vendor whose text delta is c and whose
\* finish reason is fin ("" is none)
ContentLine(h, c, fin) ==
    Line(24, indexOfDone(c), TRUE, TRUE, FALSE,
         IF h = "claude" THEN "content_block_delta" ELSE "", fin, c)

\* the line "data: [DONE]"
DoneLine == Line(12, TRUE, TRUE, FALSE, FALSE, "", "", "")

\* ------------------------------------------- the handlers' pure functions
\* The request builders applied to one configuration each; nothing of the
\* client changes.
clientVars == <<platformHandler, lastError, streamVars, threadVars, toolVars, lastUserMessage,
                lastAssistantToolCallsJson, lastMessageWasToolCalls, lastFinishReason,
                lastTotalTokens, rawVars, tcLog>>

\* function fn is about to be applied to input in
Applying(fn, in) == [fn |-> fn, in |-> in, out |-> "", done |-> FALSE]

\* function fn is applied to the input: out is what it returned
Apply(fn, out) ==
    /\ pure.fn = fn
    /\ ~pure.done
    /\ pure' = [pure EXCEPT !.out = out, !.done = TRUE]
    /\ UNCHANGED clientVars

Applied(fn) == pure.fn = fn /\ pure.done

BuildRequestBody == Apply("buildRequestBody", Body(buildRequestBody(pure.in)))
BuildToolCallsRequestBody ==
    Apply("buildToolCallsRequestBody", buildToolCallsRequestBody(pure.in))
BuildToolCallsFollowUpRequestBody ==
    Apply("buildToolCallsFollowUpRequestBody", buildToolCallsFollowUpRequestBody(pure.in))
ParseToolCalls ==
    Apply("parseToolCallsResponseBody", ToolCallsArray(pure.in.h, pure.in.calls))
BuildTools == Apply("tools", BuildTool(pure.in.h, pure.in.tool))
ProcessStreamChunk ==
    Apply("processStreamChunk", processStreamChunk(pure.in.h, pure.in.line))

\* the configurations the builders of the client's handler are applied to
ChatConfigured ==
    \E stream \in BOOLEAN, systemRole \in {"", "be brief"}, temperature \in {-10, 0, 7},
       maxTokens \in {-1, 0, 256}, custom \in CustomParams(platformHandler),
       doc \in {EmptyDoc, StaleDoc} :
        pure = Applying("buildRequestBody",
                        ChatConfig(platformHandler, stream, systemRole, temperature, maxTokens,
                                   custom, doc))

ToolRequestConfigured ==
    \E maxTokens \in {-1, 0, 128}, toolChoice \in ToolChoices :
        pure = Applying("buildToolCallsRequestBody",
                        ToolConfig(platformHandler, FALSE, maxTokens, toolChoice, -1, "", TRUE))

FollowUpConfigured ==
    \E toolChoice \in {"", "required", "any"}, maxTokens \in {-1, 0, 128},
       followUpToolChoice \in ToolChoices, assistantParses \in BOOLEAN :
        pure = Applying("buildToolCallsFollowUpRequestBody",
                        ToolConfig(platformHandler, TRUE, -1, toolChoice, maxTokens,
                                   followUpToolChoice, assistantParses))

ToolCallsReceived ==
    \E calls \in UNION { [1..n -> VendorCalls(platformHandler)] : n \in 1..MaxCalls } :
        pure = Applying("parseToolCallsResponseBody", [h |-> platformHandler, calls |-> calls])

ToolStored ==
    \E form \in {"simple", "wrapped"},
       description \in {Absent, JsonString(""), JsonString("Get the weather")},
       parameters \in Schemas(MaxDepth) :
        pure = Applying("tools",
                        [h |-> platformHandler,
                         tool |-> ToolForm(form, JsonString("get_weather"), description,
                                           parameters)])

ChunkRead ==
    \E line \in Lines \cup { ContentLine(platformHandler, c, fin) :
                               c \in StreamTexts, fin \in {"", "stop"} } :
        pure = Applying("processStreamChunk", [h |-> platformHandler, line |-> line])

InitPure ==
    /\ InitStream
    /\ InitTC
    /\ platformHandler \in Vendors
    /\ \/ ChatConfigured
       \/ ToolRequestConfigured
       \/ FollowUpConfigured
       \/ ToolCallsReceived
       \/ ToolStored
       \/ ChunkRead

NextPure ==
    \/ BuildRequestBody
    \/ BuildToolCallsRequestBody
    \/ BuildToolCallsFollowUpRequestBody
    \/ ParseToolCalls
    \/ BuildTools
    \/ ProcessStreamChunk

SpecPure == InitPure /\ [][NextPure]_vars

\* ================================================================ claims
StreamChatReturned(t) == pc[t] = "ret" /\ hist[t].op = "streamChat"

\* thread t takes one of the two state checks of streamChat in this step
TakesStartCheck(t) ==
    \/ pc[t] = "idle" /\ pc'[t] # "idle" /\ hist'[t].op = "streamChat"
    \/ pc[t] = "sc_lock" /\ pc'[t] # "sc_lock"

\* C1: a streamChat call whose state check finds the state Starting or
\* Active returns false with the "in progress" error, has not posted to the
\* transport nor invoked a callback, and leaves the stream state, the
\* callback and the chunk/byte counters of the running session as they were.
C1_SecondStartRejected ==
    [][\A t \in Threads :
          (TakesStartCheck(t) /\ streamState \in {STARTING, ACTIVE})
          => /\ pc'[t] = "ret"
             /\ ~loc'[t].success
             /\ ContainsInProgress(loc'[t].err)
             /\ lastError' = loc'[t].err
             /\ ~hist'[t].posted
             /\ ~hist'[t].called
             /\ streamState' = streamState
             /\ streamCallback' = streamCallback
             /\ streamChunkCount' = streamChunkCount
             /\ streamTotalBytes' = streamTotalBytes]_vars

\* C1 witness: a call was rejected with the "in progress" error while the
\* other thread's session is in its read loop
C1_Witness ==
    \E t, u \in Threads :
        /\ t # u
        /\ StreamChatReturned(t)
        /\ ContainsInProgress(loc[t].err)
        /\ loc[t].st = ACTIVE
        /\ pc[u] \in LoopPcs
        /\ streamCallback = u

\* the positions of streamChat between the POST and the end of the read loop
TransportPcs == {"sc_active", "sc_loop", "sc_cb", "sc_poll"}

\* C2: at most one streamChat call is between its POST and the end of its
\* read loop.
C2_OneReadLoop ==
    Cardinality({t \in Threads : pc[t] \in TransportPcs}) <= 1

\* C3: a streamChat whose session was Active when another thread's
\* stopStreaming set the state to Stopping (no reset interfering) returns
\* true, with the state Idle, and with no error unless another call wrote one.
C3_StopIsUserStop ==
    \A t \in Threads :
        (StreamChatReturned(t) /\ hist[t].stopHit /\ ~hist[t].resetInterf)
        => /\ loc[t].success
           /\ loc[t].st = IDLE
           /\ (~hist[t].errInterf => loc[t].err = NoError)

TakesReset(t) == pc[t] = "idle" /\ hist'[t].op = "streamChatReset"

\* C5: once the state is Error it stays Error until streamChatReset runs; a
\* streamChat call made in state Error fails without posting; after
\* streamChatReset the state is Idle.
C5_ErrorUntilReset ==
    [][/\ (streamState = ERROR /\ streamState' # ERROR) => \E t \in Threads : TakesReset(t)
       /\ \A t \in Threads :
             (TakesStartCheck(t) /\ streamState = ERROR)
             => pc'[t] = "ret" /\ ~loc'[t].success /\ ~hist'[t].posted
       /\ \A t \in Threads : TakesReset(t) => streamState' = IDLE]_vars

\* C6: a streamChat that returns false leaves a non-empty last error.
C6_FailureHasError ==
    \A t \in Threads :
        (StreamChatReturned(t) /\ ~loc[t].success) => loc[t].err # NoError

\* the turns after which the claim says no tool-call batch is pending
NoBatchTurns == {"fresh", "reset", "chatFailed", "chatText", "replyText"}

\* C7: a tcReply made before any tcChat, after tcChatReset, after a tcChat
\* that failed or returned plain text, or after a tcReply that returned
\* plain text, returns an empty result with a non-empty error and posts
\* nothing.
C7_ReplyNeedsPendingBatch ==
    (tcLog.op = "tcReply" /\ tcLog.prevTurn \in NoBatchTurns)
    => isEmpty(tcLog.result) /\ lastError # NoError /\ ~tcLog.posted

\* C8: after a tcChat or tcReply that returned a non-empty payload, the flag
\* is true exactly when the payload is a tool-call array, and then the
\* stored assistant turn is that payload.
C8_FlagMatchesPayload ==
    (tcLog.op \in {"tcChat", "tcReply"} /\ ~isEmpty(tcLog.result))
    => /\ lastMessageWasToolCalls <=> tcLog.result.kind = "calls"
       /\ tcLog.result.kind = "calls" => lastAssistantToolCallsJson = tcLog.result

\* C9: a tcReply whose argument is oversized, not JSON, not an array, or has
\* an element lacking tool_call_id, function, function.name or
\* function.output returns an empty string with a non-empty error, posts
\* nothing, and leaves the three conversation fields as they were.
C9_InvalidReplyChangesNothing ==
    (tcLog.op = "tcReply" /\ tcLog.defect # "")
    => /\ isEmpty(tcLog.result)
       /\ lastError # NoError
       /\ ~tcLog.posted
       /\ tcLog.kept

\* C9 witness: with a batch pending, a tcReply was rejected for an element
\* without function.output, and the batch is still pending
C9_Witness ==
    /\ tcLog.op = "tcReply"
    /\ tcLog.defect = "lacks function.output"
    /\ lastError = ErrResultNoOutput
    /\ lastMessageWasToolCalls
    /\ lastAssistantToolCallsJson.kind = "calls"
    /\ tcLog.kept

\* C10: a tcReply posts a follow-up request only if every tool_call_id of
\* its argument is the id of a call of the pending batch.
C10_ReplyIdsArePending ==
    (tcLog.op = "tcReply" /\ tcLog.posted) => tcLog.known

\* ESP32_AI_Connect::getFinishReason / getTotalTokens
getFinishReason == IF platformHandler = "none" THEN "" ELSE lastFinishReason
getTotalTokens == IF platformHandler = "none" THEN 0 ELSE lastTotalTokens

\* the request methods whose transient fields the claims are about
RequestOps == {"chat", "tcChat", "tcReply"}

\* the finish reasons a handler can store from a 200 body with finish
\* reason fin: the vendor's value, or the value the Gemini tool-call parser
\* derives from the kind of content
ReasonsFrom(h, got) ==
    {"", got.fin}
    \cup (IF h = "gemini" /\ got.code = HTTP_CODE_OK THEN {"tool_calls", "stop"} ELSE {})

\* C11: after a chat, tcChat or tcReply has returned (also one that failed
\* before a response was parsed), getFinishReason and getTotalTokens report
\* a value of that call's response or the cleared defaults "" and 0, never
\* a value an earlier call left.
C11_UsageIsOfThisCall ==
    tcLog.op \in RequestOps =>
        /\ getFinishReason \in ReasonsFrom(platformHandler, tcLog.got)
        /\ getTotalTokens \in {0, tcLog.got.tokens}

\* a step of the method op: the tool-call methods leave every thread where
\* it is and log themselves
CallStep(op) == pc' = pc /\ tcLog'.op = op

\* the response code / raw response field of a request method
CodeOf(op) ==
    IF op = "chat" THEN chatResponseCode
    ELSE IF op = "tcChat" THEN tcChatResponseCode ELSE tcReplyResponseCode
RawOf(op) == IF op = "chat" THEN chatRawResponse ELSE tcRawResponse

\* the errors a request method reports for what the transport gave it
ErrorsOf(op, got) ==
    IF got.code = 0
    THEN {ErrTcNoHandler, ErrBeginFailed}
         \cup (IF op = "chat" THEN {ErrBuildChat}
               ELSE IF op = "tcChat" THEN {ErrToolsNotSet, ErrBuildTc}
               ELSE {ErrToolsNotSet, ErrNoToolCalls, ErrBuildFollowUp, ErrResultsTooLarge,
                     ErrResultsJson, ErrResultsNotArray, ErrResultNoId, ErrResultNoFunction,
                     ErrResultNoName, ErrResultNoOutput})
    ELSE IF got.code < 0 THEN {ErrRequestFailed}
    ELSE IF got.code # HTTP_CODE_OK THEN {HttpError(got.code, got.payload)}
    ELSE {ErrJson, ApiError(ErrApi), ApiError(ErrClaudeApi)}
         \cup (IF op = "chat"
               THEN {ErrNoContent, ErrNoValidContent, ErrGeminiFormat, ErrGeminiStopped,
                     ErrGeminiNoParts, ErrGeminiNoText, ErrParseChat}
               ELSE {ErrNoChoice, ErrNoContentArray, ErrNoCandidates, ErrNoParts, ErrNeither}
                    \cup (IF op = "tcChat" THEN {ErrParseTc} ELSE {ErrParseFollowUp}))

\* the transient fields of op hold what the logged call produced, or the
\* cleared values
TransientsOfThisCall(op) ==
    /\ CodeOf(op) \in {0, tcLog.got.code}
    /\ RawOf(op) \in {"", tcLog.got.payload}
    /\ lastError \in {NoError} \cup ErrorsOf(op, tcLog.got)
    /\ (~isEmpty(tcLog.result) => lastError = NoError)

\* C12: when a chat, tcChat or tcReply returns, getLastError, the raw
\* response cache of that method and the HTTP status of that method hold
\* what this call produced or the cleared values (empty, 0), nothing an
\* earlier call left.
C12_TransientsAreOfThisCall ==
    [][\A op \in RequestOps : CallStep(op) => TransientsOfThisCall(op)']_vars

\* C12 happens: a tcChat got a 200 answer, and the chat made after it
\* failed before the POST and left an empty cache, status 0 and its own error
C12_Witness ==
    /\ tcLog.op = "chat"
    /\ tcLog.got.code = 0
    /\ tcChatResponseCode = HTTP_CODE_OK
    /\ tcRawResponse = "body"
    /\ chatResponseCode = 0
    /\ chatRawResponse = ""
    /\ lastError = ErrBeginFailed

\* C13: the registered tools change only in a setTCTools call that
\* succeeds: begin (also with an unsupported platform), chatReset,
\* tcChatReset, streamChatReset, chat, tcChat and tcReply leave the tool
\* list and the tool count as they are.
C13_ToolsChangeOnlyBySetTCTools ==
    [][toolVars' # toolVars =>
          /\ CallStep("setTCTools")
          /\ lastError' = NoError]_vars

\* C13 happens: with a tool registered, the client was re-initialised with
\* an unsupported platform and still has the tool
C13_Witness ==
    /\ tcLog.op = "begin"
    /\ platformHandler = "none"
    /\ tcToolsArraySize = 1
    /\ tcToolsArray = <<SimpleTool>>

\* C14: when a tool of the batch is not valid JSON, or lacks a name or
\* parameters in the simple and in the OpenAI-wrapped form, or the batch
\* exceeds the size limit, setTCTools fails with a non-empty error, stores
\* no tool of the batch and keeps the tools registered before.
C14_BadBatchChangesNoTool ==
    [][(CallStep("setTCTools") /\ tcLog'.defect # "") =>
          /\ lastError' # NoError
          /\ UNCHANGED toolVars]_vars

\* C14 happens: with the wrapped tool registered, a batch whose second tool
\* has no parameters was rejected and the wrapped tool is still the tool set
C14_Witness ==
    /\ tcLog.op = "setTCTools"
    /\ tcLog.defect = "incomplete"
    /\ lastError = ErrToolNoParameters
    /\ tcToolsArraySize = 1
    /\ tcToolsArray = <<WrappedTool>>

\* ------------------------------------------------------ request bodies
\* the member of a vendor's body that carries each configured value
MaxTokensField(h) ==
    IF h = "openai" THEN "max_completion_tokens"
    ELSE IF h = "claude" THEN "max_tokens" ELSE "generationConfig.maxOutputTokens"

TemperatureField(h) == IF h = "gemini" THEN "generationConfig.temperature" ELSE "temperature"

SystemField(h) ==
    IF h = "openai" THEN "messages.system"
    ELSE IF h = "claude" THEN "system" ELSE "systemInstruction"

UserField(h) == IF h = "gemini" THEN "contents" ELSE "messages.user"

\* the key of customParams that lands in the max-token member
MaxTokensKey(h) ==
    IF h = "openai" THEN "max_completion_tokens"
    ELSE IF h = "claude" THEN "max_tokens" ELSE "maxOutputTokens"

Keys(custom) == { custom[i] : i \in 1..Len(custom) }

\* C16: for every vendor and for chat and stream requests, the built body
\* carries the explicit temperature, max tokens, system role, model and user
\* message where customParams targets the same member, and no value of
\* customParams sits in the model, the message list or the system
\* instruction.
C16_ExplicitFieldsWin ==
    Applied("buildRequestBody") =>
        LET c == pure.in
            doc == pure.out.doc
        IN  /\ doc["model"] = IF c.h = "gemini" THEN Absent ELSE JsonString(c.model)
            /\ doc[UserField(c.h)] = JsonString(c.userMessage)
            /\ c.h # "gemini" => doc["messages"] = JsonContainer
            /\ c.systemRole # "" => doc[SystemField(c.h)] = JsonString(c.systemRole)
            /\ doc[SystemField(c.h)].kind # "custom"
            /\ c.temperature >= 0 => doc[TemperatureField(c.h)] = JsonNumber(c.temperature)
            /\ c.maxTokens > 0 => doc[MaxTokensField(c.h)] = JsonNumber(c.maxTokens)

\* a Gemini stream request whose customParams carries a generationConfig
\* object and a temperature, built with an explicit temperature: the
\* explicit one is in the body, inside the object of customParams
C16_Witness ==
    /\ Applied("buildRequestBody")
    /\ pure.in.h = "gemini"
    /\ pure.in.stream
    /\ pure.in.custom = <<"temperature", "generationConfig">>
    /\ pure.in.temperature = 7
    /\ pure.out.doc["generationConfig"] = Custom("generationConfig")
    /\ pure.out.doc["generationConfig.temperature"] = JsonNumber(7)

\* the builders of request bodies and the max tokens each is called with
RequestBuilders ==
    {"buildRequestBody", "buildToolCallsRequestBody", "buildToolCallsFollowUpRequestBody"}

RequestBuilt == pure.fn \in RequestBuilders /\ pure.done /\ pure.out.built

ConfiguredMaxTokens ==
    IF pure.fn = "buildToolCallsFollowUpRequestBody" THEN pure.in.followUpMaxTokens
    ELSE pure.in.maxTokens

\* every built Claude request carries max_tokens: the configured value when
\* it is > 0, else 1024
ClaudeCarriesMaxTokens ==
    pure.out.doc["max_tokens"] =
        JsonNumber(IF ConfiguredMaxTokens > 0 THEN ConfiguredMaxTokens ELSE 1024)

\* C17 as stated: every request built for Claude carries max_tokens (the
\* configured value when > 0, else 1024); an OpenAI or Gemini request built
\* with an unset maxTokens has no max-token member.
C17_MaxTokens_Original ==
    RequestBuilt =>
        IF pure.in.h = "claude" THEN ClaudeCarriesMaxTokens
        ELSE ConfiguredMaxTokens <= 0 => pure.out.doc[MaxTokensField(pure.in.h)] = Absent

\* C17: every request built for Claude carries max_tokens (the configured
\* value when > 0, else 1024); an OpenAI or Gemini request built with an
\* unset maxTokens has a max-token member only in a chat or stream request
\* whose customParams supplies it, and then it is the value of customParams.
C17_MaxTokens ==
    RequestBuilt =>
        IF pure.in.h = "claude" THEN ClaudeCarriesMaxTokens
        ELSE (/\ ConfiguredMaxTokens <= 0
              /\ pure.out.doc[MaxTokensField(pure.in.h)] # Absent)
             => /\ pure.fn = "buildRequestBody"
                /\ MaxTokensKey(pure.in.h) \in Keys(pure.in.custom)
                /\ pure.out.doc[MaxTokensField(pure.in.h)] = Custom(MaxTokensKey(pure.in.h))

\* an OpenAI chat request with maxTokens unset and max_completion_tokens in
\* customParams
C17_Witness ==
    /\ RequestBuilt
    /\ pure.fn = "buildRequestBody"
    /\ pure.in.h = "openai"
    /\ pure.in.maxTokens = -1
    /\ pure.in.custom = <<"max_completion_tokens">>
    /\ pure.out.doc["max_completion_tokens"] = Custom("max_completion_tokens")

\* the tool-choice directive of a built body
Directive(doc) ==
    <<doc["tool_choice"], doc["tool_choice.type"], doc["tool_config.function_calling_config.mode"]>>

\* C18: for Claude and for Gemini, the tool choice "required" produces the
\* same tool-choice directive as the tool choice "any", in the tool request
\* and in the follow-up request.
C18_RequiredIsAny ==
    /\ (/\ Applied("buildToolCallsRequestBody")
        /\ pure.in.h \in {"claude", "gemini"}
        /\ pure.in.toolChoice = "required")
       => Directive(pure.out.doc) =
            Directive(buildToolCallsRequestBody([pure.in EXCEPT !.toolChoice = "any"]).doc)
    /\ (/\ Applied("buildToolCallsFollowUpRequestBody")
        /\ pure.in.h \in {"claude", "gemini"}
        /\ pure.in.followUpToolChoice = "required")
       => Directive(pure.out.doc) =
            Directive(buildToolCallsFollowUpRequestBody(
                          [pure.in EXCEPT !.followUpToolChoice = "any"]).doc)

\* C15: for every vendor, each element of the tool-call array the parser
\* returns has an id, type "function", function.name, and
\* function.arguments as a JSON-encoded string.
C15_ElementsAreNormalized ==
    Applied("parseToolCallsResponseBody") =>
        \A i \in 1..Len(pure.out) :
            /\ pure.out[i].id.kind = "string"
            /\ pure.out[i].type = JsonString("function")
            /\ pure.out[i].name.kind = "string"
            /\ pure.out[i].arguments \in {JsonString(ArgsText), JsonString("{}")}

\* out is the schema src with every type keyword upper-cased, every
\* property kept, and the enum and required arrays as they are
RECURSIVE UpperCased(_, _)
UpperCased(src, out) ==
    /\ out.type = toUpperCase(src.type)
    /\ out.enum = src.enum
    /\ out.required = src.required
    /\ Len(out.properties) = Len(src.properties)
    /\ \A i \in 1..Len(src.properties) :
          /\ out.properties[i].name = src.properties[i].name
          /\ UpperCased(src.properties[i].schema, out.properties[i].schema)

\* C19: the Gemini conversion of an object-typed parameters schema
\* upper-cases the type keyword of the schema and of every property at
\* every nesting depth, loses no property, and copies the enum and required
\* arrays as they are.
C19_SchemaIsUpperCased ==
    (/\ Applied("tools")
     /\ pure.in.h = "gemini"
     /\ pure.in.tool.parameters.type = "object")
    => UpperCased(pure.in.tool.parameters, pure.out.parameters)

\* C20: for each vendor, a tool in the simple form and the same tool in the
\* wrapped form give the same tool in the request body (name, description,
\* parameters), with and without a description.
C20_FormsAreEquivalent ==
    Applied("tools") => pure.out = BuildTool(pure.in.h, OtherForm(pure.in.tool))

\* C21: the OpenAI chunk parser reports completion with empty content and
\* no error for the line data: [DONE]; for a data line whose delta content
\* is a text c and that has no finish_reason it returns c with isComplete
\* false and no error.
C21_OpenAIChunks ==
    (Applied("processStreamChunk") /\ pure.in.h = "openai") =>
        /\ pure.in.line = DoneLine => pure.out = ChunkResult("", TRUE, "")
        /\ \A c \in StreamTexts :
              pure.in.line = ContentLine("openai", c, "") => pure.out = ChunkResult(c, FALSE, "")


\* C29: a tcReply that passed its validation and then failed (the connection
\* could not be opened, the request failed, the status was not 200, or the
\* 200 body carried an error envelope or could not be parsed) keeps the
\* pending batch: the flag stays true and the stored user message and
\* assistant turn are unchanged.
C29_FailedReplyKeepsBatch ==
    (/\ tcLog.op = "tcReply"
     /\ isEmpty(tcLog.result)
     /\ (tcLog.posted \/ lastError = ErrBeginFailed))
    => tcLog.kept /\ lastMessageWasToolCalls

\* C22: a chat, tcChat or tcReply whose response is the vendor's error
\* envelope {"error":{"message":m}}, with a non-200 status or with 200,
\* returns an empty result and leaves a last error that contains m.
C22_EnvelopeIsReported ==
    (/\ tcLog.op \in RequestOps
     /\ \/ tcLog.got.apiErr
        \/ tcLog.got.code > 0 /\ tcLog.got.code # HTTP_CODE_OK
                              /\ tcLog.got.payload = ErrorEnvelope)
    => isEmpty(tcLog.result) /\ Contains(lastError, ErrorMessage)

\* C22 happens: a tcReply got a 200 whose body was the envelope and reports
\* the vendor's message
C22_Witness ==
    /\ tcLog.op = "tcReply"
    /\ tcLog.got.code = HTTP_CODE_OK
    /\ tcLog.got.apiErr
    /\ isEmpty(tcLog.result)
    /\ Contains(lastError, ErrorMessage)

\* C22 happens as well with a status that is not 200: a chat got a 401 with
\* the envelope as its body
C22_NonOkReached ==
    /\ tcLog.op = "chat"
    /\ tcLog.got.code = 401
    /\ tcLog.got.payload = ErrorEnvelope
    /\ Contains(lastError, ErrorMessage)

\* C25: for every vendor the body a chat or streamChat builds depends only
\* on the configuration and the message of this call: it is the body built
\* from an empty request document, whatever an earlier call left in the
\* document.
C25_BodyIsOfThisCall ==
    Applied("buildRequestBody") =>
        pure.out = Body(buildRequestBody([pure.in EXCEPT !.doc = EmptyDoc]))

\* the positions of a thread that executes streamChat
StreamChatPcs ==
    {"sc_lock", "sc_build", "sc_post", "sc_active", "sc_loop", "sc_cb", "sc_poll", "sc_fin"}

\* C26: whenever no streamChat call is executing the stream state is Idle or
\* Error, under every interleaving with stopStreaming calls of other threads.
C26_QuiescentIsIdleOrError ==
    (\A t \in Threads : pc[t] \notin StreamChatPcs) => streamState \in {IDLE, ERROR}

\* C27: a stopStreaming that takes effect while the session is Starting is
\* honoured: once the state is Stopping it does not change to Active in
\* that session.
C27_StopWhileStartingIsHonoured ==
    [][~(streamState = STOPPING /\ streamState' = ACTIVE)]_vars

C30_FinishReasonOfTheStream ==
    \A t \in Threads :
        (StreamChatReturned(t) /\ loc[t].complete /\ hist[t].reported # "")
        => lastFinishReason = hist[t].reported

\* C23: during an Active session every line the parser accepts with content
\* or with the completion flag is handed to the callback, also while
\* another thread calls the locked getters and contends for the stream mutex.
C23_EveryLineIsDelivered ==
    \A t \in Threads : ~hist[t].dropped

\* the steps of thread t
ThreadStep(t) ==
    \/ StreamChatLocked(t) \/ StreamChatBuild(t) \/ StreamChatPost(t)
    \/ StreamChatSetActive(t) \/ StreamChatLoop(t) \/ StreamChatCallback(t)
    \/ StreamChatPoll(t) \/ StreamChatFinish(t) \/ StopStreamingSet(t) \/ GetterRelease(t)

\* C28: the stream mutex is held by no thread that is posting to or reading
\* the transport, running the callback or returning from a public streaming
\* method: a thread holds it only inside a critical section, which ends
\* with the release; and no call waits forever, every thread inside a call
\* can take its next step.
C28_MutexOnlyInsideSections ==
    \A t \in Threads :
        /\ streamMutex = t => pc[t] = "g_held"
        /\ (InCall(t) /\ NoneReturned) => ENABLED ThreadStep(t)

\* C28 happens: a session delivered lines to its callback, ran to
\* completion and returned while the other thread was holding the mutex
C28_Witness ==
    /\ StreamChatReturned(Streamer)
    /\ hist[Streamer].called
    /\ loc[Streamer].complete
    /\ pc[Observer] = "g_held"
    /\ streamMutex = Observer
====
